---- MODULE Spec2Model ----
(***************************************************************************)
(* Model of the timeline engine of blue-archive-tools (tl-editor):         *)
(* TimelineProcessor merges the rows of input_json.timeline with the start *)
(* and end transitions of cost-recovery buffs (additional_events) and keeps *)
(* the cost state (current frame, cost points, total cost recovery).       *)
(*                                                                         *)
(* Representation of JavaScript values                                     *)
(*   null / undefined     Null (the empty tuple); a present value v is <<v>>*)
(*   seconds              integer milliseconds                             *)
(*   cost values          integer tenths of one cost (PRECISION_DIGITS = 1)*)
(*   cost points          integers, 300000 points = cost 1.0               *)
(*   strings that regular expressions look into (event names)             *)
(*                        sequences of tokens; the tokens stand for the    *)
(*                        substrings the patterns of the source look for   *)
(*                          mizu=水 hoshino=ホシノ oji=おじ seia=セイア      *)
(*                          costrec=コスト回復力 zou=増 joushou=上昇        *)
(*                          gen=減 teika=低下 kaishi=開始 shuuryou=終了     *)
(***************************************************************************)
EXTENDS Integers, Sequences, FiniteSets, TLC

VARIABLES
  settings,           \* this.settings (read-only during a run)
  rows,               \* this.input_json.timeline; rows are mutated by the run
  idx,                \* loop index i of createTimelineJSON, 1-based
  pc,                 \* position: "main" | "loop" | "done" | "error"
  loop_count,         \* local loop_count of resolveRowTiming
  state,              \* this.state
  timeline,           \* this.timeline_json.timeline
  additional_events,  \* this.timeline_json.additional_events
  label_map,          \* this.label_map
  error,              \* the error thrown out of createTimelineJSON, or Null
  radiator_events,    \* RadiatorManager: this.radiator_events
  radiator_intervals, \* RadiatorManager: this.radiator_intervals
  radiator_call,      \* RadiatorManager: the last call, its arguments and result
  first_run           \* the log a first run on these row objects returned, or Null

vars == <<settings, rows, idx, pc, loop_count, state, timeline,
          additional_events, label_map, error, first_run>>

\* The fields of a RadiatorManager and its last call.
rvars == <<radiator_events, radiator_intervals, radiator_call>>

----------------------------------------------------------------------------
(* JavaScript values *)

Null == <<>>
Some(v) == <<v>>

\* JavaScript truthiness of a number-or-null: null and 0 are falsy.
TruthyNum(x) == x # Null /\ x[1] # 0

\* JavaScript truthiness of a string-or-null: null and "" are falsy.
TruthyStr(x) == x # Null /\ x[1] # ""

\* x || 0 for a number-or-null.
OrZero(x) == IF x = Null THEN 0 ELSE x[1]

Min(a, b) == IF a <= b THEN a ELSE b
Abs(a) == IF a < 0 THEN -a ELSE a

----------------------------------------------------------------------------
(* Constants of the source *)

FPS == 30
COST_POINT_UNIT == 300000
PRECISION_DIGITS == 1
BASE_RECOVERY_PER_STUDENT == 700
DEFAULT_MAX_COST == 10
LOOP_LIMIT == 100
BATTLE_START_FRAME == 60
BATTLE_START_STUDENTS == 6
MAX_INDIVIDUAL_BUFFS == 7

\* cost (in tenths) * COST_POINT_UNIT
CostToPoints(c) == (c * COST_POINT_UNIT) \div (10 ^ PRECISION_DIGITS)

\* Math.round(x): the nearest integer, halves towards +infinity, of num/den.
MathRound(num, den) == (2 * num + den) \div (2 * den)

\* utilities.js secondsToFrames: Math.round(seconds * FPS); 0 for a non-number.
secondsToFrames(seconds) ==
  IF seconds = Null THEN 0 ELSE MathRound(seconds[1] * FPS, 1000)

\* utilities.js framesToSeconds: frames / FPS, kept to the millisecond.
framesToSeconds(frames) == MathRound(frames * 1000, FPS)

----------------------------------------------------------------------------
(* Regular expressions over token sequences *)

\* A pattern is a sequence of sets of tokens: it matches a name that holds,
\* in this order and at increasing positions, one token of each set
\* (the regex  .*A.*(B|C).*  is <<{A}, {B, C}>>).
RECURSIVE MatchFrom(_, _, _, _)
MatchFrom(pattern, name, p, n) ==
  IF p > Len(pattern) THEN TRUE
  ELSE IF n > Len(name) THEN FALSE
  ELSE IF name[n] \in pattern[p]
         THEN MatchFrom(pattern, name, p + 1, n + 1)
              \/ MatchFrom(pattern, name, p, n + 1)
         ELSE MatchFrom(pattern, name, p, n + 1)

RegexTest(pattern, name) == MatchFrom(pattern, name, 1, 1)

COST_RECOVERY_INCREASE_PATTERN == <<{"costrec"}, {"zou", "joushou"}>>
COST_RECOVERY_DECREASE_PATTERN == <<{"costrec"}, {"gen", "genshou", "teika"}>>

----------------------------------------------------------------------------
(* The catalog: window.BUFF_DATA.cost_recovery_buffs, in key order *)

BUFF_DATA == <<
  [key |-> "mizugi_hoshino", buff_name |-> <<"mizugi_hoshino_EX">>,
   buff_target |-> "mizugi_hoshino", buff_amount |-> Some(684),
   base_buff_amount |-> 0, additional_buff_amount |-> 0,
   duration_frames |-> <<1500>>, offset_frames |-> 21,
   detection_patterns |-> << <<{"mizu"}, {"hoshino", "oji"}>> >>,
   exclusion_patterns |-> << >>],
  [key |-> "seia", buff_name |-> <<"seia_EX">>,
   buff_target |-> "seia", buff_amount |-> Some(718),
   base_buff_amount |-> 0, additional_buff_amount |-> 0,
   duration_frames |-> <<450, 535>>, offset_frames |-> 98,
   detection_patterns |-> << <<{"seia"}>> >>,
   exclusion_patterns |-> << <<{"mizu"}>> >>],
  [key |-> "kanoe", buff_name |-> <<"kanoe_SS">>,
   buff_target |-> "kanoe", buff_amount |-> Null,
   base_buff_amount |-> 342, additional_buff_amount |-> 85,
   duration_frames |-> <<1000000>>, offset_frames |-> 0,
   detection_patterns |-> << >>, exclusion_patterns |-> << >>],
  [key |-> "cherino", buff_name |-> <<"cherino_SS">>,
   buff_target |-> "cherino", buff_amount |-> Null,
   base_buff_amount |-> 511, additional_buff_amount |-> 146,
   duration_frames |-> <<1000000>>, offset_frames |-> 0,
   detection_patterns |-> << >>, exclusion_patterns |-> << >>],
  [key |-> "general", buff_name |-> <<"costrec", "zouka">>,
   buff_target |-> "NA", buff_amount |-> Null,
   base_buff_amount |-> 0, additional_buff_amount |-> 0,
   duration_frames |-> << >>, offset_frames |-> 0,
   detection_patterns |-> << >>, exclusion_patterns |-> << >>]
>>

CatalogEntry(key) ==
  BUFF_DATA[CHOOSE k \in 1..Len(BUFF_DATA) : BUFF_DATA[k].key = key]

\* Whether one catalog entry is detected in event_name: some detection pattern
\* matches and no exclusion pattern does.
EntryDetects(buff_config, event_name) ==
  /\ \E p \in 1..Len(buff_config.detection_patterns) :
        RegexTest(buff_config.detection_patterns[p], event_name)
  /\ \A x \in 1..Len(buff_config.exclusion_patterns) :
        ~RegexTest(buff_config.exclusion_patterns[x], event_name)

\* detectCostRecoveryBuff that does not look at the exclusion patterns.
detectCostRecoveryBuffNoExclusion(event_name) ==
  LET hits == {k \in 1..Len(BUFF_DATA) :
                 \E p \in 1..Len(BUFF_DATA[k].detection_patterns) :
                    RegexTest(BUFF_DATA[k].detection_patterns[p], event_name)}
  IN IF hits = {} THEN Null
     ELSE LET k == CHOOSE h \in hits : \A g \in hits : h <= g
          IN Some([buff_name |-> BUFF_DATA[k].buff_name,
                   buff_target |-> BUFF_DATA[k].buff_target,
                   buff_amount |-> BUFF_DATA[k].buff_amount,
                   duration_frames |-> BUFF_DATA[k].duration_frames,
                   offset_frames |-> BUFF_DATA[k].offset_frames])

\* detectCostRecoveryBuff: the first catalog entry detected, or Null.
detectCostRecoveryBuff(event_name) ==
  LET hits == {k \in 1..Len(BUFF_DATA) : EntryDetects(BUFF_DATA[k], event_name)}
  IN IF hits = {} THEN Null
     ELSE LET k == CHOOSE h \in hits : \A g \in hits : h <= g
          IN Some([buff_name |-> BUFF_DATA[k].buff_name,
                   buff_target |-> BUFF_DATA[k].buff_target,
                   buff_amount |-> BUFF_DATA[k].buff_amount,
                   duration_frames |-> BUFF_DATA[k].duration_frames,
                   offset_frames |-> BUFF_DATA[k].offset_frames])

----------------------------------------------------------------------------
(* 5. Cost recovery *)

SS_MULTIPLIER_E4 == 2029

\* Math.round(x * (1 + 0.2029))
RoundSS(x) == MathRound(x * (10000 + SS_MULTIPLIER_E4), 10000)

RECURSIVE SumSeq(_)
SumSeq(s) == IF s = << >> THEN 0 ELSE Head(s) + SumSeq(Tail(s))

\* buff_target "all" (any case), 全員, 全体
IsAllStudentTarget(t) == t \in {"all", "ALL", "zenin", "zentai"}

\* The buff is counted by calculateTotalCostRecovery at current_frame.
BuffCounts(event, current_frame) ==
  /\ event.active
  /\ event.start_frame <= current_frame
  /\ event.end_frame > current_frame

ActiveBuffs(evs, current_frame) ==
  SelectSeq(evs, LAMBDA e : /\ BuffCounts(e, current_frame)
                            /\ e.buff_target # "NA"
                            /\ ~IsAllStudentTarget(e.buff_target))

GlobalBuffs(evs, current_frame) ==
  SelectSeq(evs, LAMBDA e : BuffCounts(e, current_frame) /\ e.buff_target = "NA")

AllStudentBuffs(evs, current_frame) ==
  SelectSeq(evs, LAMBDA e : /\ BuffCounts(e, current_frame)
                            /\ IsAllStudentTarget(e.buff_target))

\* TooManyBuffs that lets 7 individual buffs pass.
TooManyBuffsAbove(evs, current_frame) ==
  Len(ActiveBuffs(evs, current_frame)) > MAX_INDIVIDUAL_BUFFS

\* calculateTotalCostRecovery throws when 7 or more individual buffs are active.
TooManyBuffs(evs, current_frame) ==
  Len(ActiveBuffs(evs, current_frame)) >= MAX_INDIVIDUAL_BUFFS

\* calculateTotalCostRecovery that adds the buffs of target "NA" for every
\* student.
calculateTotalCostRecoveryPerStudent(evs, current_frame, ss_enabled, active_students) ==
  LET active_buffs == ActiveBuffs(evs, current_frame)
      global_buffs == GlobalBuffs(evs, current_frame)
      all_student_buffs == AllStudentBuffs(evs, current_frame)
      Actual(x) == IF ss_enabled THEN RoundSS(x) ELSE x
      shared ==
        SumSeq([k \in 1..Len(all_student_buffs) |->
                  OrZero(all_student_buffs[k].buff_amount)])
        + SumSeq([k \in 1..Len(global_buffs) |->
                    OrZero(global_buffs[k].buff_amount)])
      buffed ==
        SumSeq([k \in 1..Len(active_buffs) |->
                  Actual(BASE_RECOVERY_PER_STUDENT
                         + OrZero(active_buffs[k].buff_amount) + shared)])
      unbuffed_students == active_students - Len(active_buffs)
  IN buffed + (IF unbuffed_students > 0
                 THEN unbuffed_students
                      * Actual(BASE_RECOVERY_PER_STUDENT + shared)
                 ELSE 0)

calculateTotalCostRecovery(evs, current_frame, ss_enabled, active_students) ==
  LET active_buffs == ActiveBuffs(evs, current_frame)
      global_buffs == GlobalBuffs(evs, current_frame)
      all_student_buffs == AllStudentBuffs(evs, current_frame)
      Actual(x) == IF ss_enabled THEN RoundSS(x) ELSE x
      all_student_buff_total ==
        SumSeq([k \in 1..Len(all_student_buffs) |->
                  OrZero(all_student_buffs[k].buff_amount)])
      buffed ==
        SumSeq([k \in 1..Len(active_buffs) |->
                  Actual(BASE_RECOVERY_PER_STUDENT
                         + OrZero(active_buffs[k].buff_amount)
                         + all_student_buff_total)])
      unbuffed_students == active_students - Len(active_buffs)
      unbuffed ==
        IF unbuffed_students > 0
          THEN unbuffed_students
               * Actual(BASE_RECOVERY_PER_STUDENT + all_student_buff_total)
          ELSE 0
      global_buff_total ==
        SumSeq([k \in 1..Len(global_buffs) |->
                  Actual(OrZero(global_buffs[k].buff_amount))])
  IN buffed + unbuffed + global_buff_total

----------------------------------------------------------------------------
(* 10. TimelineProcessor *)

\* The part of the processor the commit step works on.  thrown is Null, or
\* the kind of the error thrown.
Machine(st, tl, evs, thrown) ==
  [state |-> st, timeline |-> tl, additional_events |-> evs, thrown |-> thrown]

max_cost_points(cfg) == CostToPoints(cfg.max_cost)

\* createBuffEvent that always takes the first listed duration.
createBuffEventFirstDuration(buff_info, start_frame, cfg) ==
  [start_frame |-> start_frame + buff_info.offset_frames,
   end_frame |-> start_frame + buff_info.offset_frames
                 + buff_info.duration_frames[1],
   event_name |-> buff_info.buff_name,
   buff_target |-> buff_info.buff_target,
   buff_amount |-> buff_info.buff_amount,
   active |-> FALSE]

\* createBuffEvent.  (The duration field in milliseconds is derived from the
\* two frames and read by nothing; it is not kept.)
createBuffEvent(buff_info, start_frame, cfg) ==
  LET actual_start_frame == start_frame + buff_info.offset_frames
      duration_frames ==
        IF buff_info.buff_name = <<"seia_EX">>
          THEN IF (IF cfg.seia_koyuu2 = "" THEN "yes" ELSE cfg.seia_koyuu2) = "yes"
                 THEN buff_info.duration_frames[2]
                 ELSE buff_info.duration_frames[1]
          ELSE buff_info.duration_frames[1]
  IN [start_frame |-> actual_start_frame,
      end_frame |-> actual_start_frame + duration_frames,
      event_name |-> buff_info.buff_name,
      buff_target |-> buff_info.buff_target,
      buff_amount |-> buff_info.buff_amount,
      active |-> FALSE]

\* RecoverCost without the cap.
RecoverCostUncapped(st, target_frame, cfg) ==
  IF target_frame > st.current_frame
    THEN [points |-> st.remaining_cost_points
                     + (target_frame - st.current_frame) * st.total_cost_recovery,
          overflow |-> Some(0)]
    ELSE [points |-> st.remaining_cost_points, overflow |-> Null]

\* Step 1 of addEventToTimeline: recovery over the frames passed, capped.
\* Yields the cost points and the overflow recorded on the event (Null when
\* the frame does not advance: the key overflow_cost is then not set).
\* The overflow is kept in points: overflow_cost = overflow / COST_POINT_UNIT.
RecoverCost(st, target_frame, cfg) ==
  IF target_frame > st.current_frame
    THEN LET frame_diff == target_frame - st.current_frame
             recovered == st.remaining_cost_points
                          + frame_diff * st.total_cost_recovery
         IN IF recovered > max_cost_points(cfg)
              THEN [points |-> max_cost_points(cfg),
                    overflow |-> Some(recovered - max_cost_points(cfg))]
              ELSE [points |-> recovered, overflow |-> Some(0)]
    ELSE [points |-> st.remaining_cost_points, overflow |-> Null]

\* Step 4 of addEventToTimeline: payment of the cost of an input row.
PayCost(points, cost_used, event_source) ==
  IF event_source = "input_row" /\ cost_used # 0
    THEN points - CostToPoints(cost_used)
    ELSE points

\* SettleCost with the payment made before the recovery and the cap.
SettleCostPayFirst(st, target_frame, cost_used, event_source, cfg) ==
  RecoverCost([st EXCEPT !.remaining_cost_points =
                 PayCost(st.remaining_cost_points, cost_used, event_source)],
              target_frame, cfg)

\* Steps 1 and 4 of addEventToTimeline in their order: recovery and cap,
\* then payment.  [points, overflow]
SettleCost(st, target_frame, cost_used, event_source, cfg) ==
  LET rec == RecoverCost(st, target_frame, cfg)
  IN [points |-> PayCost(rec.points, cost_used, event_source),
      overflow |-> rec.overflow]

\* Steps 1-6 of addEventToTimeline, once target_frame, the event under
\* construction and the updated additional_events are known.  transition
\* names the interval and the kind of transition an additional event is
\* about (the original_event of the source); it is Null for a row.
CommitEvent(m, target_frame, formatted, evs, students, event_source, transition, cfg) ==
  LET paid == SettleCost(m.state, target_frame, formatted.cost_used,
                         event_source, cfg)
      remaining_students ==
        IF students = Null THEN m.state.remaining_students ELSE students[1]
      st1 == [remaining_cost_points |-> paid.points,
              total_cost_recovery |-> m.state.total_cost_recovery,
              remaining_students |-> remaining_students,
              current_frame |-> target_frame]
  IN IF TooManyBuffs(evs, target_frame)
       THEN Machine(st1, m.timeline, evs, Some("too_many_buffs"))
       ELSE LET rate == calculateTotalCostRecovery(evs, target_frame,
                                                   cfg.ss_enabled,
                                                   remaining_students)
                st2 == [st1 EXCEPT !.total_cost_recovery = rate]
                logged == [frame |-> target_frame,
                           cost_used |-> formatted.cost_used,
                           event_name |-> formatted.event_name,
                           note |-> formatted.note,
                           overflow_cost |-> paid.overflow,
                           remaining_cost_points |-> paid.points,
                           total_cost_recovery |-> rate,
                           remaining_students |-> remaining_students,
                           event_source |-> event_source,
                           transition |-> transition]
            IN Machine(st2, Append(m.timeline, logged), evs, Null)

\* addEventToTimeline(event, 'additional_event'): event is the transition
\* found by findMostRecentAdditionalEvent, [k, event_type, frame], k the
\* position of original_event in additional_events.
addAdditionalEvent(m, event, cfg) ==
  LET original == m.additional_events[event.k]
      target_frame ==
        IF event.event_type = "end" THEN original.end_frame
                                    ELSE original.start_frame
      evs == [m.additional_events EXCEPT
                ![event.k].active = (event.event_type = "start")]
      formatted ==
        [cost_used |-> 0,
         event_name |-> Append(original.event_name,
                               IF event.event_type = "start" THEN "kaishi"
                                                             ELSE "shuuryou"),
         note |-> << >>]
  IN CommitEvent(m, target_frame, formatted, evs, Null, "additional_event",
                 Some([k |-> event.k, event_type |-> event.event_type]), cfg)

\* addEventToTimeline(event, 'input_row').  For a row whose name made
\* interval k, the logged event names it: [k, "made"].
addInputRow(m, event, cfg) ==
  CommitEvent(m, event.frame,
              [cost_used |-> event.cost_used,
               event_name |-> event.event_name,
               note |-> event.note],
              m.additional_events, event.remaining_students, "input_row",
              IF "made" \in DOMAIN event THEN event.made ELSE Null, cfg)

\* The transition findMostRecentAdditionalEvent considers for one interval:
\* the end of an active interval, the start of an inactive interval that
\* does not lie before current_frame; none for an interval whose end_frame
\* lies before current_frame.  Null, or [frame, event_type].
CandidateTransition(event, current_frame) ==
  IF event.end_frame < current_frame THEN Null
  ELSE IF event.active
    THEN Some([frame |-> event.end_frame, event_type |-> "end"])
  ELSE IF event.start_frame >= current_frame
    THEN Some([frame |-> event.start_frame, event_type |-> "start"])
  ELSE Null

\* findMostRecentAdditionalEvent: the candidate of the smallest frame, the
\* first in additional_events among equals.  Null, or [k, event_type, frame].
findMostRecentAdditionalEvent(evs, current_frame) ==
  LET cand == {k \in 1..Len(evs) :
                 CandidateTransition(evs[k], current_frame) # Null}
      Frame(k) == CandidateTransition(evs[k], current_frame)[1].frame
  IN IF cand = {} THEN Null
     ELSE LET k == CHOOSE c \in cand :
                     \A d \in cand :
                        Frame(c) < Frame(d) \/ (Frame(c) = Frame(d) /\ c <= d)
          IN Some([k |-> k,
                   event_type |->
                     CandidateTransition(evs[k], current_frame)[1].event_type,
                   frame |-> Frame(k)])

\* interpretSign without the inversion for the countdown display.
interpretSignForward(modifier_char, cfg) ==
  IF modifier_char = Null \/ modifier_char[1] \notin {"+", "-"} THEN 0
  ELSE IF modifier_char[1] = "+" THEN 1 ELSE -1

\* interpretSign
interpretSign(modifier_char, cfg) ==
  IF modifier_char = Null \/ modifier_char[1] \notin {"+", "-"} THEN 0
  ELSE LET modifier_sign == IF modifier_char[1] = "+" THEN 1 ELSE -1
       IN IF cfg.modifier_always_forward = "yes" THEN modifier_sign
          ELSE IF cfg.time_display_format = "backward" THEN -1 * modifier_sign
          ELSE modifier_sign

\* calculateFramesFromReference: [frame, note], note the row's note array
\* after the call.  A frame of null (a label without frame, no modifier)
\* is 0 in every comparison that follows and is given as 0.
calculateFramesFromReference(current_row, lmap, cfg) ==
  LET ref_label == current_row.reference[1]
      ref_event == IF ref_label \in DOMAIN lmap THEN lmap[ref_label] ELSE Null
  IN IF ref_event = Null
       THEN [frame |-> 0, note |-> Append(current_row.note, "label_missing")]
     ELSE IF current_row.modifier = Null /\ ~TruthyNum(current_row.modified_amount)
       THEN [frame |-> OrZero(ref_event[1].frame), note |-> current_row.note]
     ELSE
       LET known == TruthyNum(ref_event[1].frame) \/ TruthyNum(ref_event[1].time)
           ref_frame ==
             IF TruthyNum(ref_event[1].frame) THEN ref_event[1].frame[1]
             ELSE IF TruthyNum(ref_event[1].time)
               THEN secondsToFrames(ref_event[1].time)
             ELSE 0
           note ==
             IF ~known /\ current_row.modifier # Null
                       /\ TruthyNum(current_row.modified_amount)
               THEN Append(current_row.note, "label_needs_time")
               ELSE current_row.note
           mod_frames ==
             secondsToFrames(Some(OrZero(current_row.modified_amount)))
       IN [frame |-> ref_frame
                     + interpretSign(current_row.modifier, cfg) * mod_frames,
           note |-> note]

\* The division of calculateFramesFromCostTiming: Math.ceil(a / b), b > 0.
CeilDiv(a, b) == -((-a) \div b)

\* calculateFramesFromCostTiming without the test of the recovery.
calculateFramesFromCostTimingUnguarded(cost_timing, current_row, st) ==
  LET target_points == CostToPoints(cost_timing)
  IN IF st.remaining_cost_points >= target_points \/ st.total_cost_recovery <= 0
       THEN [frame |-> st.current_frame, note |-> current_row.note,
             thrown |-> Null]
     ELSE [frame |-> st.current_frame
                     + CeilDiv(target_points - st.remaining_cost_points,
                               st.total_cost_recovery),
           note |-> current_row.note, thrown |-> Null]

\* calculateFramesFromCostTiming: [frame, note, thrown]
calculateFramesFromCostTiming(cost_timing, current_row, st) ==
  LET target_points == CostToPoints(cost_timing)
  IN IF st.remaining_cost_points >= target_points
       THEN [frame |-> st.current_frame,
             note |-> IF current_row.explicit_cost_timing
                        THEN Append(current_row.note, "already_satisfied")
                        ELSE current_row.note,
             thrown |-> Null]
     ELSE IF st.total_cost_recovery <= 0
       THEN [frame |-> 0, note |-> current_row.note,
             thrown |-> Some("zero_recovery")]
     ELSE [frame |-> st.current_frame
                     + CeilDiv(target_points - st.remaining_cost_points,
                               st.total_cost_recovery),
           note |-> current_row.note, thrown |-> Null]

\* estimateFrameFromRow: [frame, note, thrown]
estimateFrameFromRow(current_row, st, lmap, cfg) ==
  IF TruthyNum(current_row.frame)
    THEN [frame |-> current_row.frame[1], note |-> current_row.note,
          thrown |-> Null]
  ELSE IF TruthyNum(current_row.time)
    THEN [frame |-> secondsToFrames(current_row.time),
          note |-> current_row.note, thrown |-> Null]
  ELSE IF TruthyStr(current_row.reference)
    THEN LET r == calculateFramesFromReference(current_row, lmap, cfg)
         IN [frame |-> r.frame, note |-> r.note, thrown |-> Null]
  ELSE IF TruthyNum(current_row.cost_timing)
    THEN calculateFramesFromCostTiming(current_row.cost_timing[1],
                                       current_row, st)
  ELSE [frame |-> 0, note |-> current_row.note, thrown |-> Some("no_anchor")]

\* checkAndUpdateDuplicateBuffs that cuts nothing.
checkAndUpdateDuplicateBuffsNone(evs, buff_target, new_start_frame) == evs

\* checkAndUpdateDuplicateBuffs: the end of every active interval of the
\* same buff_target that reaches beyond new_start_frame is cut to it.
checkAndUpdateDuplicateBuffs(evs, buff_target, new_start_frame) ==
  [k \in 1..Len(evs) |->
     IF /\ evs[k].buff_target = buff_target
        /\ evs[k].active
        /\ evs[k].end_frame > new_start_frame
       THEN [evs[k] EXCEPT !.end_frame = new_start_frame]
       ELSE evs[k]]

\* detectAndProcessBuff: additional_events after the call.
detectAndProcessBuff(evs, event_name, start_frame, cfg) ==
  LET buff_info == detectCostRecoveryBuff(event_name)
  IN IF buff_info = Null THEN evs
     ELSE LET buff_event == createBuffEvent(buff_info[1], start_frame, cfg)
          IN Append(checkAndUpdateDuplicateBuffs(evs, buff_info[1].buff_target,
                                                 buff_event.start_frame),
                    buff_event)

\* IsSpecialCommand that knows the increase directive only.
IsSpecialCommandIncreaseOnly(row, cfg) ==
  /\ cfg.special_command_accepted = "yes"
  /\ row.event_name # << >>
  /\ RegexTest(COST_RECOVERY_INCREASE_PATTERN, row.event_name)

\* processSpecialCommand, first part: whether the row is a special command.
IsSpecialCommand(row, cfg) ==
  /\ cfg.special_command_accepted = "yes"
  /\ row.event_name # << >>
  /\ \/ RegexTest(COST_RECOVERY_INCREASE_PATTERN, row.event_name)
     \/ RegexTest(COST_RECOVERY_DECREASE_PATTERN, row.event_name)

\* SpecialCommandBuff without the test of the duration.
SpecialCommandBuffUnchecked(row, cfg) ==
  LET general == CatalogEntry("general")
      isDecrease == RegexTest(COST_RECOVERY_DECREASE_PATTERN, row.event_name)
      buffAmount == IF isDecrease THEN -OrZero(row.value) ELSE OrZero(row.value)
      buff_skeleton ==
        [buff_name |-> <<"costrec", ToString(Abs(buffAmount)),
                         IF isDecrease THEN "genshou" ELSE "zouka">>,
         buff_target |-> general.buff_target,
         buff_amount |-> Some(buffAmount),
         duration_frames |-> <<secondsToFrames(row.duration)>>,
         offset_frames |-> general.offset_frames]
  IN Some(createBuffEvent(buff_skeleton, secondsToFrames(row.time), cfg))

\* processSpecialCommand, second part: the interval a special command makes,
\* Null when its duration is no positive number.
SpecialCommandBuff(row, cfg) ==
  IF row.duration = Null \/ row.duration[1] <= 0 THEN Null
  ELSE
    LET general == CatalogEntry("general")
        isIncrease == RegexTest(COST_RECOVERY_INCREASE_PATTERN, row.event_name)
        isDecrease == RegexTest(COST_RECOVERY_DECREASE_PATTERN, row.event_name)
        buffAmount == IF isDecrease THEN -OrZero(row.value)
                                    ELSE OrZero(row.value)
        buff_target == IF TruthyStr(row.target) THEN row.target[1]
                                                ELSE general.buff_target
        named == <<"costrec", ToString(Abs(buffAmount)),
                   IF isDecrease THEN "genshou" ELSE "zouka">>
        buff_skeleton ==
          [buff_name |-> IF buff_target # "NA"
                           THEN Append(named, buff_target) ELSE named,
           buff_target |-> buff_target,
           buff_amount |-> Some(buffAmount),
           duration_frames |-> <<secondsToFrames(row.duration)>>,
           offset_frames |-> general.offset_frames]
    IN Some(createBuffEvent(buff_skeleton, secondsToFrames(row.time), cfg))

\* addKanoeSS / addCherinoSS: the one-time grant of a stacking level.
addSS(evs, key, level, cfg) ==
  IF level >= 1
    THEN LET buff == CatalogEntry(key)
             info == [buff_name |-> buff.buff_name,
                      buff_target |-> buff.buff_target,
                      buff_amount |->
                        Some(buff.base_buff_amount
                             + (level - 1) * buff.additional_buff_amount),
                      duration_frames |-> buff.duration_frames,
                      offset_frames |-> buff.offset_frames]
         IN Append(evs, createBuffEvent(info, BATTLE_START_FRAME, cfg))
    ELSE evs

\* InitializeLabelMap: the last row that carries a label decides its entry.
InitializeLabelMap(input) ==
  LET labels == {input[k].label[1] :
                   k \in {j \in 1..Len(input) : TruthyStr(input[j].label)}}
      Last(l) == CHOOSE k \in 1..Len(input) :
                   /\ input[k].label = Some(l)
                   /\ \A j \in 1..Len(input) : input[j].label = Some(l) => j <= k
  IN [l \in labels |->
        IF input[Last(l)].time = Null
          THEN Some([time |-> Null, frame |-> Null])
          ELSE Some([time |-> input[Last(l)].time,
                     frame |-> Some(secondsToFrames(input[Last(l)].time))])]

\* DEFAULT_EVENTS with the six students present from frame 0 on.
DEFAULT_EVENTSAllPresent == <<
  [frame |-> 0, event_name |-> <<"time_start">>, cost_used |-> 0,
   note |-> << >>, remaining_students |-> Some(BATTLE_START_STUDENTS)],
  [frame |-> BATTLE_START_FRAME, event_name |-> <<"battle_start">>,
   cost_used |-> 0, note |-> << >>,
   remaining_students |-> Some(BATTLE_START_STUDENTS)] >>

\* The constructor: Step 1.c to 1.e and the two grants.
DEFAULT_EVENTS == <<
  [frame |-> 0, event_name |-> <<"time_start">>, cost_used |-> 0,
   note |-> << >>, remaining_students |-> Some(0)],
  [frame |-> BATTLE_START_FRAME, event_name |-> <<"battle_start">>,
   cost_used |-> 0, note |-> << >>,
   remaining_students |-> Some(BATTLE_START_STUDENTS)] >>

Constructed(cfg) ==
  LET st0 == [remaining_cost_points |-> 0, total_cost_recovery |-> 0,
              remaining_students |-> 0, current_frame |-> 0]
      m1 == addInputRow(Machine(st0, << >>, << >>, Null), DEFAULT_EVENTS[1], cfg)
      m2 == addInputRow(m1, DEFAULT_EVENTS[2], cfg)
  IN [m2 EXCEPT !.additional_events =
        addSS(addSS(m2.additional_events, "kanoe", cfg.kanoe_ss, cfg),
              "cherino", cfg.cherino_ss, cfg)]

----------------------------------------------------------------------------
(* Inputs *)

MaxRows == 2

\* A row as createInputJSON builds it (input-processor.js), plus the keys
\* the processor reads when present (frame, explicit_cost_timing).
\* bracketed tells that the line gave its cost timing in brackets
\* (processBeginning sets explicit_cost_timing, which is no key of row_object).
BaseRow ==
  [frame |-> Null, time |-> Null, reference |-> Null, modifier |-> Null,
   modified_amount |-> Null, cost_timing |-> Null,
   explicit_cost_timing |-> FALSE, cost_used |-> 0, event_name |-> <<"ex">>,
   label |-> Null, value |-> Null, duration |-> Null, target |-> Null,
   note |-> << >>, is_special_command |-> FALSE, bracketed |-> FALSE]

\* "t ex c": a row at an absolute time (ms) that uses cost c (tenths); the
\* parser copies a given cost_used into an empty cost_timing.
TimeRow(t, c) ==
  [BaseRow EXCEPT !.time = Some(t), !.cost_used = c,
                  !.cost_timing = IF c = 0 THEN Null ELSE Some(c)]

\* "name c": a row without time, resolved when cost c has been recovered;
\* explicit is the key explicit_cost_timing of a row handed over as JSON.
CostRow(name, c, explicit) ==
  [BaseRow EXCEPT !.event_name = name, !.cost_used = c,
                  !.cost_timing = Some(c), !.explicit_cost_timing = explicit,
                  !.bracketed = explicit]

\* "[target] name c" as createInputJSON builds it.
BracketRow(name, target, c) ==
  [BaseRow EXCEPT !.event_name = name, !.cost_used = c,
                  !.cost_timing = Some(target), !.bracketed = TRUE]

\* "#ref+amount ex" (modifier Null: "#ref ex"), amount in ms.
ReferenceRow(ref, modifier, amount) ==
  [BaseRow EXCEPT !.reference = Some(ref), !.modifier = modifier,
                  !.modified_amount = amount]

\* "t costrec-zou/gen v d秒": a special command row.
CommandRow(t, kind, v, d, target) ==
  [BaseRow EXCEPT !.time = t, !.event_name = <<"costrec", kind>>,
                  !.value = Some(v), !.cost_used = v, !.cost_timing = Some(v),
                  !.duration = d, !.target = target]

RowSet ==
  { TimeRow(1000, 0),                       \* frame 30, before the battle starts
    TimeRow(10000, 20),                     \* frame 300
    TimeRow(40000, 0),                      \* frame 1200, the cost is full
    TimeRow(40000, -30),                    \* "... -3": a negative cost_used
    [TimeRow(0, 30) EXCEPT !.label = Some("#a")],   \* time 0:00 and a cost
    TimeRow(0, 0),                          \* time 0:00 alone
    [TimeRow(20000, 30) EXCEPT !.event_name = <<"seia">>],
    [CostRow(<<"mizu", "hoshino">>, 30, FALSE) EXCEPT !.label = Some("#a")],
    CostRow(<<"ex">>, 50, TRUE),
    [BaseRow EXCEPT !.reference = Some("#a"), !.modifier = Some("+"),
                    !.modified_amount = Some(1000)],
    CommandRow(Some(1000), "zou", 500, Some(20000), Null),   \* starts at frame 30
    CommandRow(Some(15000), "joushou", 500, Some(10), Null), \* 0.01 s: 0 frames
    CommandRow(Some(5000), "gen", 5000, Some(10000), Null)   \* recovery < 0
  }

BaseSettings ==
  [max_cost |-> DEFAULT_MAX_COST * 10, ss_enabled |-> FALSE, kanoe_ss |-> 0,
   cherino_ss |-> 0, special_command_accepted |-> "yes", seia_koyuu2 |-> "yes",
   modifier_always_forward |-> "no", time_display_format |-> "backward"]

SettingsSet ==
  { BaseSettings,
    [BaseSettings EXCEPT !.kanoe_ss = 1, !.ss_enabled = TRUE],
    [BaseSettings EXCEPT !.special_command_accepted = "no", !.cherino_ss = 2,
                         !.seia_koyuu2 = "no"] }

\* The example of comment A.2.e: cost_max 10.5, 3,140,000 points at frame
\* 3000, a recovery of 4000, 3000, 2000, ... over the next frames, and a
\* skill of cost c at frame 3007.
ScenarioRows(c) == <<
  CommandRow(Some(2000), "gen", 200, Some(200000), Null),     \* frame 60: -200
  CommandRow(Some(100033), "gen", 1000, Some(100000), Null),  \* frame 3001
  CommandRow(Some(100067), "teika", 1000, Some(100000), Null),\* frame 3002
  TimeRow(99833, 1),                                          \* frame 2995
  TimeRow(100000, 0),  TimeRow(100033, 0), TimeRow(100067, 0),
  TimeRow(100100, 0),  TimeRow(100133, 0), TimeRow(100167, 0),
  TimeRow(100200, 0),
  TimeRow(100233, c) >>                                       \* frame 3007

ScenarioSettings == [BaseSettings EXCEPT !.max_cost = 105]

\* Rows anchored on a cost: a target of 0, a target the cost has reached,
\* a target above max_cost, the key explicit_cost_timing set.
TargetInputs ==
  {[settings |-> BaseSettings, rows |-> <<a, b>>] :
      a \in {TimeRow(40000, 0), TimeRow(10000, 0)},
      b \in {BracketRow(<<"ex">>, 0, 0), BracketRow(<<"ex">>, 20, 20),
             CostRow(<<"ex">>, 20, TRUE), CostRow(<<"ex">>, 20, FALSE),
             CostRow(<<"ex">>, 110, FALSE)}}

\* The two toggles of interpretSign.
SignSettings ==
  { BaseSettings,
    [BaseSettings EXCEPT !.modifier_always_forward = "yes"],
    [BaseSettings EXCEPT !.time_display_format = "forward"] }

\* A row that publishes label "#a" and a row that refers to a label, in
\* both orders, followed by a row at 0:40.
LabelInputs ==
  LET owners == {[TimeRow(10000, 0) EXCEPT !.label = Some("#a")],
                 [CostRow(<<"ex">>, 20, FALSE) EXCEPT !.label = Some("#a")]}
      refs == {ReferenceRow("#a", Null, Null),
               ReferenceRow("#a", Some("+"), Some(1000)),
               ReferenceRow("#a", Some("-"), Some(1000)),
               ReferenceRow("#b", Some("+"), Some(1000))}
  IN {[settings |-> cfg, rows |-> r] :
        cfg \in SignSettings,
        r \in UNION {{<<o, x, TimeRow(40000, 0)>>, <<x, o, TimeRow(40000, 0)>>} :
                        o \in owners, x \in refs}}

\* Two rows whose names are in the catalog, followed by a row at 0:40 that
\* lets the transitions be committed.
OverrideInputs ==
  LET named == {[TimeRow(20000, 30) EXCEPT !.event_name = <<"seia">>],
                [TimeRow(30000, 0) EXCEPT !.event_name = <<"seia">>],
                [TimeRow(20000, 0) EXCEPT !.event_name = <<"mizu", "oji">>],
                CostRow(<<"mizu", "hoshino">>, 30, FALSE)}
  IN {[settings |-> cfg, rows |-> <<a, b, TimeRow(40000, 0)>>] :
        cfg \in {BaseSettings,
                 [BaseSettings EXCEPT !.seia_koyuu2 = "no"],
                 [BaseSettings EXCEPT !.seia_koyuu2 = ""]},
        a \in named, b \in named}

\* A row at 0:20 whose name holds the words of one or two catalog entries,
\* followed by a row at 0:40.
DetectInputs ==
  {[settings |-> BaseSettings,
    rows |-> <<[TimeRow(20000, 0) EXCEPT !.event_name = name],
               TimeRow(40000, 0)>>] :
      name \in {<<"mizu", "seia">>, <<"seia", "mizu">>, <<"mizu", "oji", "seia">>,
                <<"seia", "mizu", "hoshino">>, <<"hoshino", "mizu">>, <<"oji">>}}

\* A special command row at 0:05 whose duration is missing, zero, negative
\* or 10 s, followed by a row at 0:40; special commands accepted or not.
CommandInputs ==
  {[settings |-> [BaseSettings EXCEPT !.special_command_accepted = accepted],
    rows |-> <<CommandRow(Some(5000), kind, 5, d, Null), TimeRow(40000, 0)>>] :
      accepted \in {"yes", "no", ""},
      kind \in {"zou", "gen"},
      d \in {Null, Some(0), Some(-5000), Some(10000)}}

\* Buffs of the three kinds of target active together: special commands
\* for the pool ("NA"), for all students and for one student, and セイア,
\* followed by a row at 0:40; with and without the SS and the two grants.
RateInputs ==
  {[settings |-> [BaseSettings EXCEPT !.ss_enabled = ss, !.kanoe_ss = level,
                                      !.cherino_ss = level],
    rows |-> <<CommandRow(Some(5000), "gen", 50, Some(20000), Null),
               CommandRow(Some(5000), "zou", 101, Some(20000), Some(all)),
               CommandRow(Some(6000), "zou", 33, Some(20000), Some("hina")),
               [TimeRow(10000, 0) EXCEPT !.event_name = <<"seia">>],
               TimeRow(40000, 0)>>] :
      ss \in BOOLEAN, level \in {0, 3}, all \in {"zenin", "ALL"}}

\* n special commands at 0:05, each for a student of its own, followed by a
\* row at 0:40 that lets them start; with and without the two grants.
BuffCountInputs ==
  {[settings |-> [BaseSettings EXCEPT !.kanoe_ss = level, !.cherino_ss = level],
    rows |-> [k \in 1..n |-> CommandRow(Some(5000), "zou", 10, Some(20000),
                                          Some(ToString(k)))]
             \o <<TimeRow(40000, 0)>>] :
      level \in {0, 1}, n \in 4..7}

\* Runs that abort on a row that has rows before and after it: a row
\* without anchor, a cost row while the recovery is negative, a row behind
\* an interval of 0 frames, a row at which a seventh individual buff starts.
ErrorInputs ==
  {[settings |-> BaseSettings, rows |-> r] :
     r \in { <<TimeRow(10000, 0), TimeRow(0, 0), TimeRow(40000, 0)>>,
             <<TimeRow(10000, 0), BaseRow, TimeRow(40000, 0)>>,
             <<CommandRow(Some(5000), "gen", 5000, Some(20000), Null),
               CostRow(<<"ex">>, 50, FALSE), TimeRow(40000, 0)>>,
             <<CommandRow(Some(15000), "joushou", 500, Some(10), Null),
               TimeRow(20000, 0), TimeRow(40000, 0)>>,
             [k \in 1..7 |-> CommandRow(Some(5000), "zou", 10, Some(20000),
                                         Some(ToString(k)))]
               \o <<TimeRow(10000, 0), TimeRow(40000, 0)>> }}

\* Two rows that publish label "#a", the second of them possibly behind a
\* later row, and a row that refers to the label after one or both of them.
RepublishInputs ==
  LET first == [TimeRow(10000, 0) EXCEPT !.label = Some("#a")]
      second == [TimeRow(15000, 0) EXCEPT !.label = Some("#a")]
      ref == ReferenceRow("#a", Some("-"), Some(1000))
  IN {[settings |-> BaseSettings, rows |-> r] :
        r \in { <<first, TimeRow(20000, 0), second, ref>>,
                <<first, second, ref, TimeRow(40000, 0)>>,
                <<first, ref, second, ReferenceRow("#a", Null, Null)>> }}

\* A directive whose interval starts at frame 560, where the cost reaches
\* 7.0, followed by a row with the explicit target 7 (or 6, or the target 7
\* defaulted from the cost) and a row at 0:40.
SatisfiedInputs ==
  {[settings |-> BaseSettings,
    rows |-> <<CommandRow(Some(18667), "zou", 500, Some(20000), Null),
               r, TimeRow(40000, 0)>>] :
     r \in {CostRow(<<"ex">>, 70, TRUE), CostRow(<<"ex">>, 60, TRUE),
            CostRow(<<"ex">>, 70, FALSE)}}

Inputs ==
  {[settings |-> cfg, rows |-> r] :
      cfg \in SettingsSet,
      r \in UNION {[1..n -> RowSet] : n \in 1..MaxRows}}
  \cup {[settings |-> ScenarioSettings, rows |-> ScenarioRows(c)] : c \in {0, 50}}
  \cup TargetInputs \cup LabelInputs \cup OverrideInputs \cup DetectInputs
  \cup CommandInputs \cup RateInputs \cup BuffCountInputs \cup ErrorInputs
  \cup RepublishInputs \cup SatisfiedInputs

----------------------------------------------------------------------------
(* The run: constructor, then createTimelineJSON *)

Init ==
  \E input \in Inputs :
    LET m == Constructed(input.settings)
    IN /\ settings = input.settings
       /\ rows = input.rows
       /\ idx = 1
       /\ pc = "main"
       /\ loop_count = 0
       /\ state = m.state
       /\ timeline = m.timeline
       /\ additional_events = m.additional_events
       /\ label_map = InitializeLabelMap(input.rows)
       /\ error = Null
       /\ radiator_events = << >>
       /\ radiator_intervals = << >>
       /\ radiator_call = [op |-> "new"]
       /\ first_run = Null

\* RowError with the 0-based index of the row.
RowErrorIndex(kind) == Some([kind |-> kind, row |-> idx - 1])

\* The error resolveRowTiming rethrows: its kind and the 1-based row.
RowError(kind) == Some([kind |-> kind, row |-> idx])

\* createTimelineJSON, one round of the for loop on a special command row.
SpecialCommand ==
  /\ pc = "main"
  /\ idx <= Len(rows)
  /\ IsSpecialCommand(rows[idx], settings)
  /\ rows' = [rows EXCEPT ![idx].is_special_command = TRUE]
  /\ additional_events' =
       LET buff == SpecialCommandBuff(rows[idx], settings)
       IN IF buff = Null THEN additional_events
                         ELSE Append(additional_events, buff[1])
  /\ idx' = idx + 1
  /\ UNCHANGED <<settings, pc, loop_count, state, timeline, label_map, error>>
  /\ UNCHANGED <<rvars, first_run>>

\* createTimelineJSON on any other row: resolveRowTiming is entered.
EnterRow ==
  /\ pc = "main"
  /\ idx <= Len(rows)
  /\ ~IsSpecialCommand(rows[idx], settings)
  /\ rows' = [rows EXCEPT ![idx].is_special_command = FALSE]
  /\ pc' = "loop"
  /\ loop_count' = 0
  /\ UNCHANGED <<settings, idx, state, timeline, additional_events, label_map,
                 error>>
  /\ UNCHANGED <<rvars, first_run>>

\* LoopLimitExceeded, one round late.
LoopLimitOffByOne(n) == n > LOOP_LIMIT + 1

\* The guard at the head of the while loop.
LoopLimitExceeded(n) == n > LOOP_LIMIT

Estimate == estimateFrameFromRow(rows[idx], state, label_map, settings)
NextTransition ==
  findMostRecentAdditionalEvent(additional_events, state.current_frame)

\* The transition goes before the row.
TransitionFirst(next, frame_estimated) ==
  next # Null /\ next[1].frame <= frame_estimated

\* resolveRowTiming, a round of the while loop that finds the limit passed.
LoopAbort ==
  /\ pc = "loop"
  /\ LoopLimitExceeded(loop_count + 1)
  /\ loop_count' = loop_count + 1
  /\ pc' = "error"
  /\ error' = RowError("infinite_loop")
  /\ UNCHANGED <<settings, rows, idx, state, timeline, additional_events,
                 label_map>>
  /\ UNCHANGED <<rvars, first_run>>

\* resolveRowTiming, a round in which estimateFrameFromRow throws.
EstimateThrows ==
  /\ pc = "loop"
  /\ ~LoopLimitExceeded(loop_count + 1)
  /\ Estimate.thrown # Null
  /\ loop_count' = loop_count + 1
  /\ rows' = [rows EXCEPT ![idx].note = Estimate.note]
  /\ pc' = "error"
  /\ error' = RowError(Estimate.thrown[1])
  /\ UNCHANGED <<settings, idx, state, timeline, additional_events, label_map>>
  /\ UNCHANGED <<rvars, first_run>>

\* resolveRowTiming, a round that commits a buff transition and continues.
CommitTransition ==
  /\ pc = "loop"
  /\ ~LoopLimitExceeded(loop_count + 1)
  /\ Estimate.thrown = Null
  /\ TransitionFirst(NextTransition, Estimate.frame)
  /\ LET m == addAdditionalEvent(
                Machine(state, timeline, additional_events, Null),
                NextTransition[1], settings)
     IN /\ state' = m.state
        /\ timeline' = m.timeline
        /\ additional_events' = m.additional_events
        /\ pc' = IF m.thrown = Null THEN "loop" ELSE "error"
        /\ error' = IF m.thrown = Null THEN Null ELSE RowError(m.thrown[1])
  /\ loop_count' = loop_count + 1
  /\ rows' = [rows EXCEPT ![idx].note = Estimate.note]
  /\ UNCHANGED <<settings, idx, label_map>>
  /\ UNCHANGED <<rvars, first_run>>

\* FinalFrame without the adjustment to the current frame.
FinalFrameUnclamped(frame_estimated, current_frame) == frame_estimated

\* The frame the row is committed at: never before the current frame.
FinalFrame(frame_estimated, current_frame) ==
  IF frame_estimated < current_frame THEN current_frame ELSE frame_estimated

\* FinalNote without the warning.
FinalNoteSilent(note, frame_estimated, current_frame) == note

\* The note of the row once its frame is final.
FinalNote(note, frame_estimated, current_frame) ==
  IF frame_estimated < current_frame THEN Append(note, "reordered") ELSE note

\* PublishLabel that keeps the entry a label already has.
PublishLabelOnce(lmap, row, frame) ==
  IF TruthyStr(row.label) /\ row.label[1] \notin DOMAIN lmap
    THEN [l \in DOMAIN lmap \cup {row.label[1]} |->
            IF l = row.label[1]
              THEN Some([time |-> Some(framesToSeconds(frame)),
                         frame |-> Some(frame)])
              ELSE lmap[l]]
    ELSE lmap

\* The update of the label map when the frame of a row is final: the label
\* of the row, if it has one, gets the frame and the time of the row.
PublishLabel(lmap, row, frame) ==
  IF TruthyStr(row.label)
    THEN [l \in DOMAIN lmap \cup {row.label[1]} |->
            IF l = row.label[1]
              THEN Some([time |-> Some(framesToSeconds(frame)),
                         frame |-> Some(frame)])
              ELSE lmap[l]]
    ELSE lmap

\* resolveRowTiming, the round that leaves the loop, and the rest of the
\* method: the row is committed.
CommitRow ==
  /\ pc = "loop"
  /\ ~LoopLimitExceeded(loop_count + 1)
  /\ Estimate.thrown = Null
  /\ ~TransitionFirst(NextTransition, Estimate.frame)
  /\ LET row == rows[idx]
         frame == FinalFrame(Estimate.frame, state.current_frame)
         note == FinalNote(Estimate.note, Estimate.frame, state.current_frame)
         evs == detectAndProcessBuff(additional_events, row.event_name, frame,
                                     settings)
         m == addInputRow(Machine(state, timeline, evs, Null),
                          [frame |-> frame, cost_used |-> row.cost_used,
                           event_name |-> row.event_name, note |-> note,
                           remaining_students |-> Null,
                           made |-> IF Len(evs) > Len(additional_events)
                                      THEN Some([k |-> Len(evs),
                                                 event_type |-> "made"])
                                      ELSE Null],
                          settings)
     IN /\ rows' = [rows EXCEPT ![idx].note = note,
                                ![idx].frame = Some(frame),
                                ![idx].time = Some(framesToSeconds(frame))]
        /\ label_map' = PublishLabel(label_map, row, frame)
        /\ state' = m.state
        /\ timeline' = m.timeline
        /\ additional_events' = m.additional_events
        /\ pc' = IF m.thrown = Null THEN "main" ELSE "error"
        /\ idx' = IF m.thrown = Null THEN idx + 1 ELSE idx
        /\ error' = IF m.thrown = Null THEN Null ELSE RowError(m.thrown[1])
  /\ loop_count' = loop_count + 1
  /\ UNCHANGED settings
  /\ UNCHANGED <<rvars, first_run>>

\* createTimelineJSON, Step 3: every row is done, the result is returned.
Finish ==
  /\ pc = "main"
  /\ idx > Len(rows)
  /\ pc' = "done"
  /\ UNCHANGED <<settings, rows, idx, loop_count, state, timeline,
                 additional_events, label_map, error>>
  /\ UNCHANGED <<rvars, first_run>>

Next ==
  \/ SpecialCommand
  \/ EnterRow
  \/ LoopAbort
  \/ EstimateThrows
  \/ CommitTransition
  \/ CommitRow
  \/ Finish

Spec == Init /\ [][Next]_vars

\* new TimelineProcessor(input_json, settings, buff_data) and
\* createTimelineJSON() a second time, on the row objects the first run
\* has left: the constructor builds the state, the log and the label map
\* anew; the log the first run returned is kept for comparison.
Rerun ==
  /\ pc = "done"
  /\ first_run = Null
  /\ first_run' = Some(timeline)
  /\ LET m == Constructed(settings)
     IN /\ state' = m.state
        /\ timeline' = m.timeline
        /\ additional_events' = m.additional_events
  /\ label_map' = InitializeLabelMap(rows)
  /\ idx' = 1
  /\ pc' = "main"
  /\ loop_count' = 0
  /\ UNCHANGED <<settings, rows, error, rvars>>

RerunNext ==
  \/ Next
  \/ Rerun

RerunSpec == Init /\ [][RerunNext]_vars

TypeOK ==
  /\ pc \in {"main", "loop", "done", "error"}
  /\ idx \in 1..(Len(rows) + 1)
  /\ loop_count \in 0..(LOOP_LIMIT + 1)
  /\ (pc = "error") = (error # Null)

----------------------------------------------------------------------------
(* RadiatorManager (TL-assistant-utils.js) *)

\* JavaScript undefined (the key is not on the object): a value that is
\* neither Null nor any Some(v).
Undefined == <<0, 0>>

\* /ラジエータ|過負荷/, /(ラジエータ|過負荷).*[始起]/,
\* /(ラジエータ|過負荷).*[終了停止]/ ; tokens radiator=ラジエータ kafuka=過負荷
\* kidou=起動 teishi=停止
RADIATOR_PATTERN == <<{"radiator", "kafuka"}>>
RADIATOR_START_PATTERN == <<{"radiator", "kafuka"}, {"kaishi", "kidou"}>>
RADIATOR_END_PATTERN ==
  <<{"radiator", "kafuka"}, {"shuuryou", "teishi"}>>

isRadiatorEvent(event_name) ==
  event_name # << >> /\ RegexTest(RADIATOR_PATTERN, event_name)

isRadiatorStart(event_name) ==
  event_name # << >> /\ RegexTest(RADIATOR_START_PATTERN, event_name)

isRadiatorEnd(event_name) ==
  event_name # << >> /\ RegexTest(RADIATOR_END_PATTERN, event_name)

\* The frame of an event of the timeline: its frame, else from its time.
RadiatorFrame(event) ==
  IF event.frame # Undefined THEN event.frame[1]
  ELSE secondsToFrames(event.time)

\* radiator_events.sort((a, b) => a.frame - b.frame): a stable sort; sorted
\* is in frame order and e comes behind the events of its frame.
InsertByFrame(sorted, e) ==
  LET n == Cardinality({k \in 1..Len(sorted) : sorted[k].frame <= e.frame})
  IN SubSeq(sorted, 1, n) \o <<e>> \o SubSeq(sorted, n + 1, Len(sorted))

RECURSIVE SortByFrame(_)
SortByFrame(events) ==
  IF events = << >> THEN << >>
  ELSE InsertByFrame(SortByFrame(SubSeq(events, 1, Len(events) - 1)),
                     events[Len(events)])

\* extractAndProcessRadiatorEvents: radiator_events after the call.
extractAndProcessRadiatorEvents(tl) ==
  LET kept == SelectSeq(tl,
                LAMBDA e : /\ isRadiatorEvent(e.event_name)
                           /\ ~(e.frame = Undefined /\ e.time = Undefined))
  IN SortByFrame([k \in 1..Len(kept) |->
                    [frame |-> RadiatorFrame(kept[k]),
                     event_name |-> kept[k].event_name,
                     is_start |-> isRadiatorStart(kept[k].event_name),
                     is_end |-> isRadiatorEnd(kept[k].event_name),
                     source |-> "timeline"]])

\* extractAndProcessRadiatorEvents: the timeline of the caller after the
\* call, its radiator events flagged as special commands.
FlaggedTimeline(tl) ==
  [k \in 1..Len(tl) |->
     IF isRadiatorEvent(tl[k].event_name)
       THEN [tl[k] EXCEPT !.is_special_command = TRUE]
       ELSE tl[k]]

\* ScanRadiatorEvents in which a start marker met while an interval is open
\* opens it anew.
RECURSIVE ScanRadiatorEventsRestart(_, _, _)
ScanRadiatorEventsRestart(events, current_start_frame, intervals) ==
  IF events = << >>
    THEN [current_start_frame |-> current_start_frame, intervals |-> intervals]
  ELSE IF Head(events).is_start
    THEN ScanRadiatorEventsRestart(Tail(events), Some(Head(events).frame),
                                   intervals)
  ELSE IF current_start_frame # Null /\ Head(events).is_end
    THEN ScanRadiatorEventsRestart(Tail(events), Null,
           Append(intervals, [start_frame |-> current_start_frame[1],
                              end_frame |-> Head(events).frame,
                              auto_extended |-> FALSE]))
  ELSE ScanRadiatorEventsRestart(Tail(events), current_start_frame, intervals)

\* The for loop of calculateRadiatorIntervals over the events left:
\* [current_start_frame, intervals] after it.
RECURSIVE ScanRadiatorEvents(_, _, _)
ScanRadiatorEvents(events, current_start_frame, intervals) ==
  IF events = << >>
    THEN [current_start_frame |-> current_start_frame, intervals |-> intervals]
  ELSE IF current_start_frame = Null /\ Head(events).is_start
    THEN ScanRadiatorEvents(Tail(events), Some(Head(events).frame), intervals)
  ELSE IF current_start_frame # Null /\ Head(events).is_end
    THEN ScanRadiatorEvents(Tail(events), Null,
           Append(intervals, [start_frame |-> current_start_frame[1],
                              end_frame |-> Head(events).frame,
                              auto_extended |-> FALSE]))
  ELSE ScanRadiatorEvents(Tail(events), current_start_frame, intervals)

\* calculateRadiatorIntervals that drops an interval left open.
calculateRadiatorIntervalsDropOpen(events, battle_time_frames) ==
  ScanRadiatorEvents(events, Null, << >>).intervals

\* isRadiatorActiveAt with the end frame inside the interval.
isRadiatorActiveAtClosed(intervals, frame) ==
  \E k \in 1..Len(intervals) :
     frame >= intervals[k].start_frame /\ frame <= intervals[k].end_frame

\* calculateRadiatorIntervals: radiator_intervals after the call.
calculateRadiatorIntervals(events, battle_time_frames) ==
  LET scan == ScanRadiatorEvents(events, Null, << >>)
  IN IF scan.current_start_frame # Null /\ battle_time_frames # Null
       THEN Append(scan.intervals,
                   [start_frame |-> scan.current_start_frame[1],
                    end_frame |-> battle_time_frames[1],
                    auto_extended |-> TRUE])
       ELSE scan.intervals

isRadiatorActiveAt(intervals, frame) ==
  \E k \in 1..Len(intervals) :
     frame >= intervals[k].start_frame /\ frame < intervals[k].end_frame

MaxEvents == 3

TimelineEvent(name, frame, time) ==
  [event_name |-> name, frame |-> frame, time |-> time,
   is_special_command |-> FALSE]

\* Events of a timeline: start, end, start-and-end and plain radiator events
\* and another event, with a frame, with a time only (5 s: frame 150; null:
\* frame 0) and with neither.
RadiatorEventSet ==
  { TimelineEvent(<<"radiator", "kaishi">>, Some(100), Some(3333)),
    TimelineEvent(<<"kafuka", "kidou">>, Some(200), Undefined),
    TimelineEvent(<<"radiator", "kaishi">>, Undefined, Some(5000)),
    TimelineEvent(<<"radiator", "kaishi">>, Undefined, Null),
    TimelineEvent(<<"radiator", "shuuryou">>, Some(100), Undefined),
    TimelineEvent(<<"radiator", "shuuryou">>, Some(200), Undefined),
    TimelineEvent(<<"kafuka", "teishi">>, Some(300), Undefined),
    TimelineEvent(<<"radiator", "teishi">>, Undefined, Undefined),
    TimelineEvent(<<"radiator", "kaishi", "shuuryou">>, Some(200), Undefined),
    TimelineEvent(<<"kaishi", "radiator">>, Some(200), Undefined),
    TimelineEvent(<<"ex", "kaishi">>, Some(100), Undefined) }

RadiatorTimelines ==
  UNION {[1..n -> RadiatorEventSet] : n \in 1..MaxEvents}

\* battle_time_frames: not given (null), before the later start events,
\* inside and behind the events.
BattleTimeFrames == {Null, Some(120), Some(250), Some(5400)}

QueryFrames == {0, 99, 100, 150, 199, 200, 249, 250, 299, 300, 5399, 5400}

\* new RadiatorManager(); no TimelineProcessor runs.
RadiatorInit ==
  LET m == Constructed(BaseSettings)
  IN /\ settings = BaseSettings
     /\ rows = << >>
     /\ idx = 1
     /\ pc = "main"
     /\ loop_count = 0
     /\ state = m.state
     /\ timeline = m.timeline
     /\ additional_events = m.additional_events
     /\ label_map = InitializeLabelMap(<< >>)
     /\ error = Null
     /\ radiator_events = << >>
     /\ radiator_intervals = << >>
     /\ radiator_call = [op |-> "new"]
     /\ first_run = Null

\* extractAndProcessRadiatorEvents(timeline).  A manager extracts once here:
\* a further call starts from radiator_events = [] again.
ExtractRadiatorEvents ==
  /\ radiator_call.op = "new"
  /\ \E tl \in RadiatorTimelines :
        /\ radiator_events' = extractAndProcessRadiatorEvents(tl)
        /\ radiator_call' = [op |-> "extract", timeline |-> FlaggedTimeline(tl)]
  /\ UNCHANGED radiator_intervals
  /\ UNCHANGED vars

\* calculateRadiatorIntervals(battle_time_frames)
CalculateRadiatorIntervals ==
  /\ \E b \in BattleTimeFrames :
        /\ radiator_intervals' = calculateRadiatorIntervals(radiator_events, b)
        /\ radiator_call' = [op |-> "calculate", battle_time_frames |-> b]
  /\ UNCHANGED radiator_events
  /\ UNCHANGED vars

\* isRadiatorActiveAt(frame)
QueryRadiatorActive ==
  /\ \E f \in QueryFrames :
        radiator_call' =
          [op |-> "query", frame |-> f,
           result |-> isRadiatorActiveAt(radiator_intervals, f)]
  /\ UNCHANGED <<radiator_events, radiator_intervals>>
  /\ UNCHANGED vars

RadiatorNext ==
  \/ ExtractRadiatorEvents
  \/ CalculateRadiatorIntervals
  \/ QueryRadiatorActive

RadiatorSpec == RadiatorInit /\ [][RadiatorNext]_<<vars, rvars>>

----------------------------------------------------------------------------
(* Properties *)

Range(f) == {f[x] : x \in DOMAIN f}
LastEvent(tl) == tl[Len(tl)]
Ceiling == max_cost_points(settings)

\* The cost an event of the log paid, in points.
Paid(e) == IF e.event_source = "input_row" THEN CostToPoints(e.cost_used) ELSE 0

\* The cost points before the cap at event b, a being the event before it.
Unclamped(a, b) ==
  a.remaining_cost_points + (b.frame - a.frame) * a.total_cost_recovery

\* The start (the end) of interval k has been committed to the log.
Committed(k, event_type) ==
  \E i \in 1..Len(timeline) :
     timeline[i].transition = Some([k |-> k, event_type |-> event_type])

\* The frames of the transitions of interval k that are pending: its start
\* while it was never started, its end while it is active.
PendingFrames(k) ==
  (IF ~additional_events[k].active /\ ~Committed(k, "start")
     THEN {additional_events[k].start_frame} ELSE {})
  \cup (IF additional_events[k].active
          THEN {additional_events[k].end_frame} ELSE {})

AllPendingFrames == UNION {PendingFrames(k) : k \in 1..Len(additional_events)}

\* The step commits the row under resolution / a transition.
RowCommitted == pc = "loop" /\ pc' = "main"
TransitionCommitted == pc = "loop" /\ Len(timeline') = Len(timeline) + 1
                       /\ LastEvent(timeline').event_source = "additional_event"

\* The number of transitions committed since the last row of the log.
TransitionsForRow ==
  LET lastRow == CHOOSE i \in 1..Len(timeline) :
                   /\ timeline[i].event_source = "input_row"
                   /\ \A j \in i + 1..Len(timeline) :
                         timeline[j].event_source # "input_row"
  IN Len(timeline) - lastRow

ErrorKind == IF error = Null THEN "none" ELSE error[1].kind

\* C1: the frames of the log never decrease, whether its events come from
\* rows or from buff transitions.
C1_LogMonotonic ==
  \A i, j \in 1..Len(timeline) :
     i < j => timeline[i].frame <= timeline[j].frame

C1_Witness ==
  /\ pc = "done"
  /\ \E i, j \in 1..Len(timeline) :
        /\ timeline[i].event_source = "additional_event"
        /\ "reordered" \in Range(timeline[j].note)

\* C2: every pending transition (start of an interval never started, end of
\* an active interval) whose frame is at most the candidate frame of the row
\* is committed before the row, the smallest frame first.
C2_PendingTransitionsFirst ==
  [][ /\ RowCommitted => \A f \in AllPendingFrames : f > Estimate.frame
      /\ TransitionCommitted =>
           \A f \in AllPendingFrames : LastEvent(timeline').frame <= f ]_vars

\* C3: when a row is committed at its final frame f, no transition with a
\* frame of at most f is still pending.
C3_StrictChronologicalMerge ==
  [][ RowCommitted =>
        \A f \in AllPendingFrames : f > LastEvent(timeline').frame ]_vars

\* C4: the resolution of a row terminates: every round of the loop raises
\* the round counter, which never passes LOOP_LIMIT + 1; at most LOOP_LIMIT
\* transitions are committed for one row, and the loop error is raised
\* exactly when round LOOP_LIMIT + 1 is entered.
C4_BoundedResolution ==
  /\ [](/\ loop_count <= LOOP_LIMIT + 1
        /\ TransitionsForRow <= LOOP_LIMIT
        /\ (ErrorKind = "infinite_loop") = (loop_count = LOOP_LIMIT + 1))
  /\ [][pc = "loop" => /\ loop_count' = loop_count + 1
                       /\ pc' \in {"loop", "main", "error"}]_vars

C4_Witness ==
  /\ ErrorKind = "infinite_loop"
  /\ TransitionsForRow = LOOP_LIMIT

\* C5: a row whose final estimate lies before the current frame is committed
\* at the current frame with the "reordered" note, and the run goes on with
\* the next row.
C5_ReorderedRowClamped ==
  [][ ( /\ pc = "loop"
        /\ ~LoopLimitExceeded(loop_count + 1)
        /\ Estimate.thrown = Null
        /\ ~TransitionFirst(NextTransition, Estimate.frame)
        /\ Estimate.frame < state.current_frame )
      => ( /\ pc' = "main" /\ error' = Null /\ idx' = idx + 1
           /\ Len(timeline') = Len(timeline) + 1
           /\ LastEvent(timeline').event_source = "input_row"
           /\ LastEvent(timeline').frame = state.current_frame
           /\ "reordered" \in Range(LastEvent(timeline').note)
           /\ state'.current_frame = state.current_frame ) ]_vars

C5_Witness ==
  /\ pc = "done"
  /\ idx = Len(rows) + 1
  /\ "reordered" \in Range(LastEvent(timeline).note)
  /\ LastEvent(timeline).frame > BATTLE_START_FRAME

\* C6: a row that carries a value for an anchor is resolved by its anchor of
\* the highest priority: time, then reference, then cost timing.
C6_AnchorPriority ==
  (pc = "loop" /\ rows[idx].frame = Null) =>
    LET row == rows[idx]
    IN IF row.time # Null
         THEN /\ Estimate.thrown = Null
              /\ Estimate.frame = secondsToFrames(row.time)
       ELSE IF row.reference # Null
         THEN /\ Estimate.thrown = Null
              /\ Estimate.frame =
                   calculateFramesFromReference(row, label_map, settings).frame
       ELSE IF row.cost_timing # Null
         THEN Estimate = calculateFramesFromCostTiming(row.cost_timing[1],
                                                       row, state)
       ELSE TRUE

\* C7: between two consecutive commits at frames f1 < f2, without payment at
\* f2, the cost points become min(ceiling, points + (f2 - f1) * rate).
C7_AccrualCorrect ==
  /\ state.remaining_cost_points = LastEvent(timeline).remaining_cost_points
  /\ state.current_frame = LastEvent(timeline).frame
  /\ \A k \in 1..Len(timeline) - 1 :
       LET a == timeline[k]
           b == timeline[k + 1]
       IN (a.frame < b.frame /\ b.cost_used = 0) =>
            b.remaining_cost_points = Min(Ceiling, Unclamped(a, b))

C7_Witness ==
  /\ \E k \in 1..Len(timeline) - 1 :
       /\ timeline[k].frame < timeline[k + 1].frame
       /\ timeline[k + 1].cost_used = 0
       /\ Unclamped(timeline[k], timeline[k + 1]) > Ceiling
  /\ \E k \in 1..Len(timeline) - 1 :
       /\ timeline[k].frame < timeline[k + 1].frame
       /\ timeline[k + 1].cost_used = 0
       /\ timeline[k].total_cost_recovery > 0
       /\ Unclamped(timeline[k], timeline[k + 1]) < Ceiling

\* C8: whenever the points after recovery would exceed the ceiling, the
\* event records the excess as overflow and the points are exactly the
\* ceiling before the payment; otherwise the recorded overflow is 0.  (An
\* absent overflow_cost is read as 0, as the formatter reads it.)
C8_OverflowCorrect ==
  \A k \in 1..Len(timeline) - 1 :
     LET a == timeline[k]
         b == timeline[k + 1]
     IN IF Unclamped(a, b) > Ceiling
          THEN /\ OrZero(b.overflow_cost) = Unclamped(a, b) - Ceiling
               /\ b.remaining_cost_points + Paid(b) = Ceiling
          ELSE OrZero(b.overflow_cost) = 0

\* The example of comment A.2.e, read off the log.
ScenarioLevels ==
  LET Level(f) == {timeline[i].remaining_cost_points :
                     i \in {j \in 1..Len(timeline) : timeline[j].frame = f}}
      Rate(f) == {timeline[i].total_cost_recovery :
                    i \in {j \in 1..Len(timeline) :
                             /\ timeline[j].frame = f
                             /\ timeline[j].event_source = "input_row"}}
  IN /\ Level(3000) = {3140000} /\ Rate(3000) = {4000}
     /\ Level(3001) = {3144000} /\ Rate(3001) = {3000}
     /\ Level(3002) = {3147000} /\ Rate(3002) = {2000}
     /\ Level(3003) = {3149000} /\ Rate(3003) = {2000}
     /\ Level(3004) = {3150000} /\ Rate(3004) = {2000}
     /\ Level(3005) = {3150000} /\ Rate(3005) = {2000}
     /\ Level(3006) = {3150000} /\ Rate(3006) = {2000}
     /\ Level(3007) = {3150000 - CostToPoints(rows[Len(rows)].cost_used)}

\* C9: in one commit the cost is paid after the recovery up to the frame of
\* the row and after the cap; the example of A.2.e ends with 1,650,000.
C9_PayAfterRecovery ==
  /\ \A k \in 1..Len(timeline) - 1 :
       LET a == timeline[k]
           b == timeline[k + 1]
       IN b.remaining_cost_points =
            (IF a.frame < b.frame THEN Min(Ceiling, Unclamped(a, b))
                                  ELSE a.remaining_cost_points) - Paid(b)
  /\ (settings = ScenarioSettings /\ pc = "done") => ScenarioLevels

C9_Witness ==
  /\ settings = ScenarioSettings
  /\ pc = "done"
  /\ rows[Len(rows)].cost_used = 50
  /\ state.current_frame = 3007
  /\ state.remaining_cost_points = 1650000

\* C10: after every commit the cost points, in the state and on the event,
\* are at most the ceiling.
C10_Capped ==
  /\ state.remaining_cost_points <= Ceiling
  /\ \A i \in 1..Len(timeline) : timeline[i].remaining_cost_points <= Ceiling

\* The row has no anchor but its cost timing (a target level).
TargetAnchored(row) ==
  /\ row.frame = Null /\ row.time = Null /\ row.reference = Null
  /\ row.cost_timing # Null

\* The target of the row under resolution is met by the current cost.
TargetMet ==
  state.remaining_cost_points >= CostToPoints(rows[idx].cost_timing[1])

\* C11: a row anchored on a target level the cost already meets resolves to
\* the current frame, for every target including 0, and is noted "already
\* satisfied" exactly when its cost timing was given in brackets.
C11_TargetAlreadyMet ==
  (pc = "loop" /\ TargetAnchored(rows[idx]) /\ TargetMet) =>
    /\ Estimate.thrown = Null
    /\ Estimate.frame = state.current_frame
    /\ ("already_satisfied" \in Range(Estimate.note)) = rows[idx].bracketed

\* C12: a row anchored on a target level that was not yet met is committed
\* only when the cost, after recovery and cap and before the row pays, has
\* reached the target.
C12_TargetReached ==
  [][ (RowCommitted /\ TargetAnchored(rows[idx]) /\ ~TargetMet) =>
        LastEvent(timeline').remaining_cost_points + Paid(LastEvent(timeline'))
          >= CostToPoints(rows[idx].cost_timing[1]) ]_vars

\* estimateFrameFromRow solves the cost timing of the row: no frame, time
\* or reference is set (0 and "" count as not set) and cost_timing is.
SolvesTarget(row) ==
  /\ ~TruthyNum(row.frame) /\ ~TruthyNum(row.time)
  /\ ~TruthyStr(row.reference) /\ TruthyNum(row.cost_timing)

\* C13: solving a target that is not met while the recovery is 0 or less
\* ends the run with the zero-recovery error; the row is not committed.
C13_ZeroRecoveryAborts ==
  /\ [](ErrorKind = "zero_recovery" =>
          /\ pc = "error"
          /\ rows[idx].frame = Null
          /\ state.total_cost_recovery <= 0)
  /\ [][ ( /\ pc = "loop" /\ ~LoopLimitExceeded(loop_count + 1)
           /\ SolvesTarget(rows[idx]) /\ ~TargetMet
           /\ state.total_cost_recovery <= 0 )
         => ( /\ pc' = "error" /\ ErrorKind' = "zero_recovery"
              /\ timeline' = timeline /\ idx' = idx /\ state' = state ) ]_vars

C13_Witness ==
  /\ ErrorKind = "zero_recovery"
  /\ state.total_cost_recovery < 0
  /\ SolvesTarget(rows[idx]) /\ ~TargetMet

\* estimateFrameFromRow resolves the row by its reference.
ResolvedByReference(row) ==
  ~TruthyNum(row.frame) /\ ~TruthyNum(row.time) /\ TruthyStr(row.reference)

\* The label has a resolved frame in the label map.
LabelResolved(l) == l \in DOMAIN label_map /\ label_map[l][1].frame # Null

\* The sign of an offset: + is later and - earlier when the toggle "always
\* forward" is on or the display shows the elapsed time; inverted for the
\* countdown display.
OffsetSign(row) ==
  LET s == IF row.modifier = Some("+") THEN 1
           ELSE IF row.modifier = Some("-") THEN -1 ELSE 0
  IN IF settings.modifier_always_forward = "yes" THEN s
     ELSE IF settings.time_display_format = "backward" THEN -s ELSE s

\* C14: a row that refers to a resolved label resolves to the frame of the
\* label plus sign * round(30 * offset seconds); without offset, to the
\* frame of the label.
C14_ReferenceOffset ==
  (pc = "loop" /\ ResolvedByReference(rows[idx])
               /\ LabelResolved(rows[idx].reference[1])) =>
    LET row == rows[idx]
        label_frame == label_map[row.reference[1]][1].frame[1]
        offset_frames == MathRound(FPS * OrZero(row.modified_amount), 1000)
    IN /\ Estimate.thrown = Null
       /\ Estimate.frame = label_frame + OffsetSign(row) * offset_frames

C14_Witness ==
  /\ pc = "loop" /\ ResolvedByReference(rows[idx])
  /\ LabelResolved(rows[idx].reference[1])
  /\ rows[idx].modifier = Some("-")
  /\ settings.modifier_always_forward = "no"
  /\ settings.time_display_format = "backward"
  /\ label_map[rows[idx].reference[1]][1].frame[1] > BATTLE_START_FRAME
  /\ Estimate.frame = label_map[rows[idx].reference[1]][1].frame[1] + FPS

\* C15: a row that refers to a label without resolved frame (unknown, or
\* published by a row not yet committed) does not end the run: the frame of
\* the label counts as 0 and a note about the label is attached to the row.
C15_UnresolvedLabel ==
  (pc = "loop" /\ ResolvedByReference(rows[idx])
               /\ ~LabelResolved(rows[idx].reference[1])) =>
    LET row == rows[idx]
        offset_frames == MathRound(FPS * OrZero(row.modified_amount), 1000)
    IN /\ Estimate.thrown = Null
       /\ Estimate.frame \in {0, OffsetSign(row) * offset_frames}
       /\ Range(Estimate.note) \cap {"label_missing", "label_needs_time"} # {}

\* No row that carries label l has been committed (rows are committed in
\* their order; idx is the first row not committed).
Unpublished(l) ==
  \A k \in 1..Len(rows) : rows[k].label = Some(l) => k >= idx

\* C16: a label has no resolved frame until the row that publishes it has
\* been committed, whatever the anchor of that row.
C16_LabelNullUntilCommit ==
  \A l \in DOMAIN label_map :
     Unpublished(l) => label_map[l][1].frame = Null

\* The step commits a row whose name is in the catalog: an interval is made.
IntervalMade ==
  RowCommitted /\ Len(additional_events') = Len(additional_events) + 1

\* The duration of an interval of a catalog entry: its single value; of two
\* listed values the second when the flag is 'yes' or not set, else the first.
CatalogDuration(entry) ==
  IF Len(entry.duration_frames) = 1 THEN entry.duration_frames[1]
  ELSE IF settings.seia_koyuu2 \in {"yes", ""} THEN entry.duration_frames[2]
  ELSE entry.duration_frames[1]

\* C17: the interval made for a catalog entry at frame f starts at
\* f + offset_frames, ends at start + duration and is not active.
C17_CreateBuffEvent ==
  [][ IntervalMade =>
        LET made == additional_events'[Len(additional_events')]
            entry == detectCostRecoveryBuff(rows[idx].event_name)[1]
            f == LastEvent(timeline').frame
        IN /\ made.start_frame = f + entry.offset_frames
           /\ made.end_frame = made.start_frame + CatalogDuration(entry)
           /\ made.active = FALSE
           /\ made.buff_target = entry.buff_target ]_vars

C17_Witness ==
  /\ settings.seia_koyuu2 = ""
  /\ \E k \in 1..Len(additional_events) :
        /\ additional_events[k].event_name = <<"seia_EX">>
        /\ ~additional_events[k].active
        /\ additional_events[k].end_frame
             = additional_events[k].start_frame + 535
  /\ LastEvent(timeline).transition # Null
  /\ LastEvent(timeline).transition[1].event_type = "made"

\* C18: when an interval is made for a scope that has an interval, pending
\* (never started) or active, that ends after the start of the new one, the
\* end of the older interval is cut to the start of the new one.
C18_DuplicateScopeOverride ==
  [][ IntervalMade =>
        LET made == additional_events'[Len(additional_events')]
        IN \A k \in 1..Len(additional_events) :
             ( /\ additional_events[k].buff_target = made.buff_target
               /\ (additional_events[k].active \/ ~Committed(k, "start"))
               /\ additional_events[k].end_frame > made.start_frame )
             => additional_events'[k].end_frame = made.start_frame ]_vars

\* The positions of the log at which transition t of interval k is committed.
LogPositions(k, t) ==
  {p \in 1..Len(timeline) :
     timeline[p].transition = Some([k |-> k, event_type |-> t])}

\* Interval i is active when the row that makes interval j is committed: the
\* last transition of i before that row is a start.
ActiveWhenMade(i, j) ==
  \E q \in LogPositions(j, "made") :
    \E p \in LogPositions(i, "start") :
       /\ p < q
       /\ \A e \in LogPositions(i, "end") : e < p \/ e > q

\* A: interval i, active; B: interval j, made later for the same scope.
Overrides(i, j) ==
  /\ i < j
  /\ additional_events[i].buff_target = additional_events[j].buff_target
  /\ ActiveWhenMade(i, j)

\* C19: when B is made for the scope of an active interval A that ends
\* after the start of B, the end of A becomes the start of B; the end of A
\* is committed at that frame before the start of B, and A is not started
\* again.
C19_OverrideEndsOlder ==
  /\ [](\A i, j \in 1..Len(additional_events) :
          Overrides(i, j) =>
            /\ additional_events[i].end_frame
                 <= additional_events[j].start_frame
            /\ \A q \in LogPositions(j, "start") :
                 \E p \in LogPositions(i, "end") :
                    /\ p < q
                    /\ timeline[p].frame = additional_events[i].end_frame
            /\ Cardinality(LogPositions(i, "start")) = 1
            /\ (LogPositions(i, "end") # {} => ~additional_events[i].active))
  /\ [][ IntervalMade =>
           LET made == additional_events'[Len(additional_events')]
           IN \A k \in 1..Len(additional_events) :
                ( /\ additional_events[k].buff_target = made.buff_target
                  /\ additional_events[k].active
                  /\ additional_events[k].end_frame > made.start_frame )
                => additional_events'[k].end_frame = made.start_frame ]_vars

C19_Witness ==
  /\ pc = "done"
  /\ \E i, j \in 1..Len(additional_events) :
        /\ Overrides(i, j)
        /\ additional_events[i].end_frame = additional_events[j].start_frame
        /\ additional_events[i].end_frame - additional_events[i].start_frame
             < 450
        /\ LogPositions(i, "end") # {}
        /\ LogPositions(j, "start") # {}
        /\ ~additional_events[i].active /\ additional_events[j].active

\* C20: no two intervals made by catalog name matching for the same scope
\* are active at the same time.
C20_NoStacking ==
  \A i, j \in 1..Len(additional_events) :
     ( /\ i < j
       /\ LogPositions(i, "made") # {} /\ LogPositions(j, "made") # {}
       /\ additional_events[i].buff_target = additional_events[j].buff_target )
     => ~(additional_events[i].active /\ additional_events[j].active)

\* Interval k has gone through its end: it is not active and its end is in
\* the log.
Ended(k) == ~additional_events[k].active /\ LogPositions(k, "end") # {}

\* C21: every interval is started at most once and ended at most once, its
\* end after its start; an interval that has ended is not active and is not
\* the next transition again, also when its end_frame is its start_frame.
C21_LifecycleOnce ==
  \A k \in 1..Len(additional_events) :
     /\ Cardinality(LogPositions(k, "start")) <= 1
     /\ Cardinality(LogPositions(k, "end")) <= 1
     /\ \A e \in LogPositions(k, "end") :
           \E p \in LogPositions(k, "start") : p < e
     /\ Ended(k) =>
          CandidateTransition(additional_events[k], state.current_frame) = Null

\* The position in the catalog of the first entry that has a detection
\* pattern matching name and no exclusion pattern matching it; 0 when no
\* entry has.
FirstQualifying(name) ==
  LET q == {k \in 1..Len(BUFF_DATA) : EntryDetects(BUFF_DATA[k], name)}
  IN IF q = {} THEN 0 ELSE CHOOSE k \in q : \A g \in q : k <= g

DurationInvalid(row) == row.duration = Null \/ row.duration[1] <= 0

\* The interval is one a special command has made.
MadeByCommand(event) == event.event_name[1] = "costrec"

\* C23: with special commands accepted, a directive whose duration is missing
\* or not positive makes no interval, raises no error and adds no note: the
\* run goes on with the next row.  With special commands not accepted, no row
\* is taken for a directive and no interval is made from one.
C23_SilentDirective ==
  /\ [][ ( /\ pc = "main" /\ idx <= Len(rows)
           /\ IsSpecialCommand(rows[idx], settings)
           /\ DurationInvalid(rows[idx]) )
         => /\ additional_events' = additional_events
            /\ timeline' = timeline
            /\ rows'[idx].note = rows[idx].note
            /\ pc' = "main" /\ idx' = idx + 1 /\ error' = Null ]_vars
  /\ [][ ( /\ pc = "main" /\ idx <= Len(rows)
           /\ settings.special_command_accepted # "yes" )
         => /\ pc' = "loop"
            /\ additional_events' = additional_events ]_vars
  /\ [](settings.special_command_accepted # "yes" =>
          /\ \A i \in 1..Len(rows) : ~rows[i].is_special_command
          /\ \A k \in 1..Len(additional_events) :
                ~MadeByCommand(additional_events[k]))

C23_Witness ==
  /\ pc = "done"
  /\ settings.special_command_accepted = "yes"
  /\ rows[1].is_special_command
  /\ rows[1].duration = Some(-5000)
  /\ rows[1].note = << >>
  /\ additional_events = << >>
  /\ Len(timeline) = 3

\* round(x * k): k = 1.2029 with the amplifier, else 1 and no rounding.
Amplified(x) ==
  IF settings.ss_enabled THEN (2 * x * 12029 + 10000) \div 20000 ELSE x

\* The sum of the magnitudes of a sequence of buffs.
RECURSIVE Magnitudes(_)
Magnitudes(buffs) ==
  IF buffs = << >> THEN 0
  ELSE OrZero(Head(buffs).buff_amount) + Magnitudes(Tail(buffs))

\* The rate of participants p..n: participant p has the p-th active buff of
\* an individual target, if there is one.
RECURSIVE ParticipantsRate(_, _, _, _)
ParticipantsRate(p, n, individual, shared) ==
  IF p > n THEN 0
  ELSE Amplified(700 + shared
                   + (IF p <= Len(individual)
                        THEN OrZero(individual[p].buff_amount) ELSE 0))
       + ParticipantsRate(p + 1, n, individual, shared)

\* The sum over the pool-wide buffs of round(magnitude * k).
RECURSIVE PoolRate(_)
PoolRate(buffs) ==
  IF buffs = << >> THEN 0
  ELSE Amplified(OrZero(Head(buffs).buff_amount)) + PoolRate(Tail(buffs))

\* The accrual rate for the intervals evs at frame f with n participants.
AccrualRate(evs, f, n) ==
  ParticipantsRate(1, n, ActiveBuffs(evs, f),
                   Magnitudes(AllStudentBuffs(evs, f)))
  + PoolRate(GlobalBuffs(evs, f))

\* C24: the rate recomputed at every commit is the sum over the participants
\* of round((700 + the magnitude of the participant's individual buff + the
\* magnitudes for all participants) * k), plus the sum over the pool-wide
\* buffs of round(magnitude * k), over the buffs that are active with
\* start_frame <= current frame < end_frame.
C24_AccrualRate ==
  [][ Len(timeline') = Len(timeline) + 1 =>
        /\ state'.total_cost_recovery
             = AccrualRate(additional_events', state'.current_frame,
                           state'.remaining_students)
        /\ LastEvent(timeline').total_cost_recovery
             = state'.total_cost_recovery ]_vars

C24_Witness ==
  /\ settings.ss_enabled
  /\ Len(ActiveBuffs(additional_events, state.current_frame)) >= 2
  /\ Len(AllStudentBuffs(additional_events, state.current_frame)) >= 1
  /\ Len(GlobalBuffs(additional_events, state.current_frame)) >= 1
  /\ LastEvent(timeline).frame = state.current_frame
  /\ LastEvent(timeline).total_cost_recovery
       = AccrualRate(additional_events, state.current_frame,
                     state.remaining_students)

\* The number of buffs of an individual target that count at the current
\* frame.
IndividualBuffCount ==
  Len(ActiveBuffs(additional_events, state.current_frame))

\* C25: the run has failed with the too-many-individual-buffs error exactly
\* when the active buffs of an individual target outnumber the active
\* participants.
C25_TooManyIndividualBuffs ==
  (ErrorKind = "too_many_buffs")
    <=> (IndividualBuffCount > state.remaining_students)

C25_Witness ==
  /\ ErrorKind = "too_many_buffs"
  /\ IndividualBuffCount = 7
  /\ state.remaining_students = 6
  /\ settings.kanoe_ss = 1

\* The kinds of error a row's resolution aborts with.
AbortKinds == {"no_anchor", "infinite_loop", "zero_recovery", "too_many_buffs"}

\* The rows of the log, the two default events of the constructor aside.
LoggedRows ==
  {p \in 3..Len(timeline) : timeline[p].event_source = "input_row"}

\* The rows before row i that are no special commands.
OrdinaryRowsBefore(i) == {j \in 1..(i - 1) : ~rows[j].is_special_command}

\* C26: an error raised while a row is resolved ends the run: it carries
\* the 1-based position of the row under resolution, no later row is
\* committed and no result is returned.
C26_RowErrorAborts ==
  /\ [][ (error = Null /\ error' # Null) =>
           /\ pc = "loop" /\ pc' = "error"
           /\ error'[1].kind \in AbortKinds
           /\ error'[1].row = idx /\ idx' = idx ]_vars
  /\ [][ error = Null ]_vars
  /\ [](error # Null =>
          /\ pc = "error"
          /\ error[1].row \in 1..Len(rows)
          /\ \A i \in (error[1].row + 1)..Len(rows) :
                rows[i].frame = Null /\ ~rows[i].is_special_command
          /\ Cardinality(LoggedRows)
               = Cardinality(OrdinaryRowsBefore(error[1].row)))

C26_Witness ==
  /\ ErrorKind = "zero_recovery"
  /\ error[1].row = 2
  /\ Len(rows) = 3
  /\ rows[3].frame = Null
  /\ rows[1].is_special_command

\* The start frame of the interval that is open after the first n radiator
\* events, Null when none is open: a start marker opens one if none is
\* open, an end marker closes the open one.
RECURSIVE OpenAfter(_)
OpenAfter(n) ==
  IF n = 0 THEN Null
  ELSE IF OpenAfter(n - 1) = Null
    THEN IF radiator_events[n].is_start THEN Some(radiator_events[n].frame)
                                        ELSE Null
  ELSE IF radiator_events[n].is_end THEN Null
  ELSE OpenAfter(n - 1)

\* The positions of the end markers that close an open interval.
ClosingPositions ==
  {n \in 1..Len(radiator_events) :
     OpenAfter(n - 1) # Null /\ radiator_events[n].is_end}

\* The step is a call of calculateRadiatorIntervals.
IntervalsCalculated == radiator_call'.op = "calculate"

\* The intervals an end marker has closed.
Closed(intervals) == SelectSeq(intervals, LAMBDA x : ~x.auto_extended)

AutoExtended(intervals) == SelectSeq(intervals, LAMBDA x : x.auto_extended)

\* C28: when calculateRadiatorIntervals is given battle_time_frames and an
\* interval is open at the end of the scan, the result ends with the one
\* interval [its start_frame, battle_time_frames] marked auto_extended; no
\* interval is marked when none is open.
C28_OpenIntervalExtended ==
  [][ (IntervalsCalculated /\ radiator_call'.battle_time_frames # Null) =>
        LET open == OpenAfter(Len(radiator_events))
            result == radiator_intervals'
        IN IF open # Null
             THEN /\ result # << >>
                  /\ result[Len(result)] =
                       [start_frame |-> open[1],
                        end_frame |-> radiator_call'.battle_time_frames[1],
                        auto_extended |-> TRUE]
                  /\ Len(AutoExtended(result)) = 1
             ELSE AutoExtended(result) = << >> ]_<<vars, rvars>>

C28_Witness ==
  /\ radiator_call.op = "calculate"
  /\ radiator_call.battle_time_frames = Some(250)
  /\ radiator_intervals =
       <<[start_frame |-> 100, end_frame |-> 200, auto_extended |-> FALSE],
         [start_frame |-> 200, end_frame |-> 250, auto_extended |-> TRUE]>>

\* The step is a call of isRadiatorActiveAt.
ActiveQueried == radiator_call'.op = "query"

\* C29: isRadiatorActiveAt(frame) is true exactly when an interval has
\* start_frame <= frame < end_frame: an interval that is not empty covers its
\* start frame and no interval covers its own end frame.
C29_HalfOpen ==
  /\ [][ ActiveQueried =>
           LET f == radiator_call'.frame
           IN radiator_call'.result
                = (\E x \in Range(radiator_intervals) :
                      x.start_frame <= f /\ f < x.end_frame) ]_<<vars, rvars>>
  /\ [](\A x \in Range(radiator_intervals) :
          /\ x.start_frame < x.end_frame
               => isRadiatorActiveAt(radiator_intervals, x.start_frame)
          /\ ~isRadiatorActiveAt(<<x>>, x.end_frame))

C29_Witness ==
  /\ radiator_call.op = "query"
  /\ radiator_call.frame = 200
  /\ ~radiator_call.result
  /\ radiator_intervals =
       <<[start_frame |-> 100, end_frame |-> 200, auto_extended |-> FALSE]>>

\* The positions of the start markers met while an interval is open with no
\* end marker since the start marker that opened it.
RepeatedStarts ==
  {n \in 1..Len(radiator_events) :
     OpenAfter(n - 1) # Null /\ radiator_events[n].is_start
     /\ ~radiator_events[n].is_end}

\* C30: when a start marker follows a start marker with no end marker
\* between them, the interval the earlier one opened ends at
\* battle_time_frames.
C30_RepeatedStartExtends ==
  [][ (IntervalsCalculated /\ radiator_call'.battle_time_frames # Null) =>
        \A n \in RepeatedStarts :
           \E k \in 1..Len(radiator_intervals') :
              /\ radiator_intervals'[k].start_frame = OpenAfter(n - 1)[1]
              /\ radiator_intervals'[k].end_frame
                   = radiator_call'.battle_time_frames[1] ]_<<vars, rvars>>

\* What the claim compares of an event of the log.
Resolved(e) ==
  [frame |-> e.frame, event_name |-> e.event_name, cost_used |-> e.cost_used,
   remaining_cost_points |-> e.remaining_cost_points,
   overflow_cost |-> e.overflow_cost,
   total_cost_recovery |-> e.total_cost_recovery, note |-> e.note]

ResolvedLog(tl) == [p \in 1..Len(tl) |-> Resolved(tl[p])]

\* C31: a second run on the rows the first run has left returns the log the
\* first run returned, event by event.
C31_RerunSameLog ==
  (pc = "done" /\ first_run # Null)
    => ResolvedLog(timeline) = ResolvedLog(first_run[1])

\* C32: the log starts with the two default events, frame 0 with no student
\* and frame 60 with six students; the rate recorded at frame 0 (in force
\* for frames 0..59) is 0, the level at the frame-60 event is 0, and every
\* later event (row or transition) is committed at frame 60 or later.
C32_BattleStart ==
  /\ Len(timeline) >= 2
  /\ timeline[1].frame = 0
  /\ timeline[1].remaining_students = 0
  /\ timeline[1].total_cost_recovery = 0
  /\ timeline[1].remaining_cost_points = 0
  /\ timeline[2].frame = BATTLE_START_FRAME
  /\ timeline[2].remaining_students = BATTLE_START_STUDENTS
  /\ timeline[2].remaining_cost_points = 0
  /\ \A p \in 3..Len(timeline) : timeline[p].frame >= BATTLE_START_FRAME
  /\ state.current_frame >= BATTLE_START_FRAME

\* A row estimated before frame 60 and a transition have been committed.
C32_Witness ==
  /\ \E p \in 3..Len(timeline) :
       /\ timeline[p].event_source = "input_row"
       /\ "reordered" \in Range(timeline[p].note)
       /\ timeline[p].frame = BATTLE_START_FRAME
  /\ \E p \in 3..Len(timeline) : timeline[p].transition # Null

\* The level of a stacking-level selector, and the intervals of its entry.
SSLevel(key) == IF key = "kanoe" THEN settings.kanoe_ss ELSE settings.cherino_ss

Grants(key) ==
  {k \in 1..Len(additional_events) :
     additional_events[k].event_name = CatalogEntry(key).buff_name}

\* One interval exactly when the level is 1 or more, of the magnitude of the
\* level, from frame 60.
Granted(key) ==
  /\ Cardinality(Grants(key)) = (IF SSLevel(key) >= 1 THEN 1 ELSE 0)
  /\ \A k \in Grants(key) :
       /\ SSLevel(key) >= 1
       /\ additional_events[k].buff_amount =
            Some(CatalogEntry(key).base_buff_amount
                 + (SSLevel(key) - 1) * CatalogEntry(key).additional_buff_amount)
       /\ additional_events[k].start_frame = BATTLE_START_FRAME

\* The grant is in force at every row of the log: it was started before the
\* row and has not ended.
InForce(key) ==
  \A k \in Grants(key) :
    /\ LogPositions(k, "end") = {}
    /\ \A p \in 3..Len(timeline) :
         timeline[p].event_source = "input_row"
           => \E q \in LogPositions(k, "start") : q < p

\* Both selectors grant as their levels say.
BothGranted == Granted("kanoe") /\ Granted("cherino")

\* C33: each selector grants exactly one interval iff its level is 1 or
\* more, of magnitude base + (level - 1) * additional, starting at frame 60,
\* and the interval is part of the rate at every row from frame 60 on.
C33_GrantInForce ==
  /\ BothGranted
  /\ InForce("kanoe") /\ InForce("cherino")

\* The level at frame f when nothing but recovery and cap happens from the
\* current state on.
LevelAt(f) == RecoverCost(state, f, settings).points

\* The candidate frame of a target level from the current state.
Candidate(target) ==
  IF state.remaining_cost_points >= target THEN state.current_frame
  ELSE state.current_frame
       + CeilDiv(target - state.remaining_cost_points,
                 state.total_cost_recovery)

\* C34: a row anchored on a target level is committed at the candidate frame
\* computed after the last transition committed before it, and that frame is
\* the earliest frame from the current frame on at which the level reaches
\* the target.
C34_EarliestTargetFrame ==
  [][ (RowCommitted /\ SolvesTarget(rows[idx])) =>
        LET f == LastEvent(timeline').frame
            target == CostToPoints(rows[idx].cost_timing[1])
        IN /\ f = Candidate(target)
           /\ f >= state.current_frame
           /\ LevelAt(f) >= target
           /\ f > state.current_frame => LevelAt(f - 1) < target ]_vars

\* The reference model of A.2.d.  From frame i to frame i + 1 the level gains
\* the rate of frame i, given by the intervals of the final collection that
\* cover frame i (none before the battle starts), and is cut to the ceiling.
RefIntervals ==
  [k \in 1..Len(additional_events) |->
     [additional_events[k] EXCEPT !.active = TRUE]]

RefRate(i) ==
  IF i < BATTLE_START_FRAME THEN 0
  ELSE AccrualRate(RefIntervals, i, BATTLE_START_STUDENTS)

\* The frames at which the rate of the reference model changes.
RefBreaks ==
  {BATTLE_START_FRAME}
    \cup {additional_events[k].start_frame : k \in 1..Len(additional_events)}
    \cup {additional_events[k].end_frame : k \in 1..Len(additional_events)}

\* n single-frame steps at the constant rate r: after the first step the
\* level is at most the ceiling, and so is it after every later one.
RefSteps(level, r, n) ==
  IF n = 0 THEN level
  ELSE Min(Ceiling, Min(Ceiling, level + r) + (n - 1) * r)

\* The level at frame j, stepping from the level at frame i; the steps up to
\* the next change of the rate are taken together.
RECURSIVE RefAdvance(_, _, _)
RefAdvance(level, i, j) ==
  IF i >= j THEN level
  ELSE LET later == {b \in RefBreaks : b > i /\ b < j}
           n == IF later = {} THEN j
                ELSE CHOOSE b \in later : \A c \in later : b <= c
       IN RefAdvance(RefSteps(level, RefRate(i), n - i), n, j)

\* The level of the reference model at event p of the log, the cost of the
\* rows committed so far subtracted.
RECURSIVE RefLevel(_)
RefLevel(p) ==
  IF p = 1 THEN 0 - Paid(timeline[1])
  ELSE RefAdvance(RefLevel(p - 1), timeline[p - 1].frame, timeline[p].frame)
       - Paid(timeline[p])

\* C35: in a run that completes, the level recorded at every event of the
\* log is the level of the frame-by-frame reference model.
C35_RefinesFrameModel ==
  pc = "done" =>
    \A p \in 1..Len(timeline) :
       timeline[p].remaining_cost_points = RefLevel(p)

\* The rows committed so far that publish label l (a row has a frame once
\* it is committed), and the one committed last.
Publishers(l) ==
  {k \in 1..Len(rows) : rows[k].label = Some(l) /\ rows[k].frame # Null}

LastPublisher(l) ==
  CHOOSE k \in Publishers(l) : \A j \in Publishers(l) : j <= k

\* C36: when a row that publishes a label is committed the frame of the
\* label becomes the final (adjusted) frame of the row; the label has the
\* frame of the publishing row committed last, and a later row that refers
\* to the label is resolved against that frame.
C36_LabelFollowsCommit ==
  /\ [](\A l \in DOMAIN label_map :
          Publishers(l) # {} =>
            label_map[l][1].frame = rows[LastPublisher(l)].frame)
  /\ [](( /\ pc = "loop" /\ ResolvedByReference(rows[idx])
          /\ Publishers(rows[idx].reference[1]) # {} ) =>
          LET row == rows[idx]
              owner == rows[LastPublisher(row.reference[1])]
              offset_frames == MathRound(FPS * OrZero(row.modified_amount), 1000)
          IN Estimate.frame = owner.frame[1] + OffsetSign(row) * offset_frames)
  /\ [][ (RowCommitted /\ TruthyStr(rows[idx].label)) =>
           LET l == rows[idx].label[1]
           IN /\ l \in DOMAIN label_map'
              /\ label_map'[l][1].frame = Some(LastEvent(timeline').frame)
              /\ LastEvent(timeline').frame >= state.current_frame
              /\ LastEvent(timeline').frame >= Estimate.frame ]_vars

\* A row refers to a label that two committed rows publish, the later of
\* them adjusted to a later frame than the first.
C36_Witness ==
  /\ pc = "loop" /\ ResolvedByReference(rows[idx])
  /\ \E j, k \in Publishers(rows[idx].reference[1]) :
        /\ j < k
        /\ rows[j].frame[1] < rows[k].frame[1]
        /\ "reordered" \in Range(rows[k].note)
        /\ Estimate.frame = rows[k].frame[1] + FPS

\* C37: after every commit of a row whose cost is not negative, and of every
\* transition, the cost points of the state and of the event are 0 or more.
C37_NeverNegative ==
  [][ ( /\ Len(timeline') = Len(timeline) + 1
        /\ LastEvent(timeline').cost_used >= 0 ) =>
        /\ state'.remaining_cost_points >= 0
        /\ LastEvent(timeline').remaining_cost_points >= 0 ]_vars

\* The level when the resolution of the row began: the level recorded at
\* the last row of the log (the transitions committed since then belong to
\* the row under resolution).
LevelAtEntry ==
  LET lastRow == CHOOSE i \in 1..Len(timeline) :
                   /\ timeline[i].event_source = "input_row"
                   /\ \A j \in i + 1..Len(timeline) :
                         timeline[j].event_source # "input_row"
  IN timeline[lastRow].remaining_cost_points

Decrease(row) == RegexTest(COST_RECOVERY_DECREASE_PATTERN, row.event_name)
Increase(row) == RegexTest(COST_RECOVERY_INCREASE_PATTERN, row.event_name)

\* Special commands are accepted and the row is a directive.
Recognized(row) ==
  settings.special_command_accepted = "yes" /\ (Increase(row) \/ Decrease(row))

\* Interval e is the pending interval directive row makes.
PendingFrom(e, row) ==
  /\ ~e.active
  /\ e.buff_amount = Some(IF Decrease(row) THEN -OrZero(row.value)
                                           ELSE OrZero(row.value))
  /\ e.buff_target = (IF TruthyStr(row.target) THEN row.target[1] ELSE "NA")
  /\ e.start_frame = secondsToFrames(row.time)
  /\ e.end_frame = e.start_frame + secondsToFrames(row.duration)

\* C39: a row recognized as a special command adds no event to the log and
\* leaves the state as it is, whether its duration is valid or not; at most
\* it appends one pending interval, of negative magnitude for a decrease
\* directive and for the whole pool when the row names no target.
C39_DirectiveOnlyAppends ==
  /\ [][ (pc = "main" /\ idx <= Len(rows) /\ Recognized(rows[idx])) =>
           /\ timeline' = timeline /\ state' = state
           /\ label_map' = label_map /\ error' = Null
           /\ pc' = "main" /\ idx' = idx + 1
           /\ rows'[idx].frame = rows[idx].frame
           /\ rows'[idx].note = rows[idx].note
           /\ \/ additional_events' = additional_events
              \/ /\ ~DurationInvalid(rows[idx])
                 /\ Len(additional_events') = Len(additional_events) + 1
                 /\ SubSeq(additional_events', 1, Len(additional_events))
                      = additional_events
                 /\ PendingFrom(LastEvent(additional_events'), rows[idx]) ]_vars
  /\ [](\A k \in 1..Len(rows) :
          rows[k].is_special_command => rows[k].frame = Null)

\* A decrease directive without target has appended its pending interval;
\* nothing but the two default events is in the log.
C39_Witness ==
  /\ pc = "main" /\ idx = 2
  /\ Recognized(rows[1]) /\ rows[1].is_special_command
  /\ Decrease(rows[1]) /\ rows[1].target = Null /\ OrZero(rows[1].value) > 0
  /\ Len(additional_events) = 1
  /\ additional_events[1].buff_amount[1] < 0
  /\ additional_events[1].buff_target = "NA"
  /\ ~additional_events[1].active
  /\ Len(timeline) = 2
  /\ state.current_frame = BATTLE_START_FRAME

\* C40: the intervals calculateRadiatorIntervals computes are well formed
\* for every list of events and every end frame handed over: no interval
\* ends before it starts, the intervals are in increasing order without
\* overlap, and only the last can be auto_extended.
C40_WellFormedIntervals ==
  /\ \A k \in 1..Len(radiator_intervals) :
        /\ radiator_intervals[k].start_frame <= radiator_intervals[k].end_frame
        /\ radiator_intervals[k].auto_extended => k = Len(radiator_intervals)
  /\ \A k \in 1..Len(radiator_intervals) - 1 :
        radiator_intervals[k].end_frame <= radiator_intervals[k + 1].start_frame

====
